---------------------------- MODULE Spec2Model ----------------------------
(***************************************************************************)
(* Verification model of CanvasKit's line-break optimizer                  *)
(* (src/src/optimize_linebreaks.js, the DP-based computeBreaks and its     *)
(* helpers).                                                               *)
(*                                                                         *)
(* Numbers.  JavaScript numbers are modelled in fixed point: a quantity q  *)
(* of the program is the integer 1000*q ("milli" units) wherever the       *)
(* program computes with fractions (penalties, scores, perturbed target    *)
(* widths); token widths, the space width and the target width are whole   *)
(* numbers.  The unperturbed DP is exact in milli units (its coefficients  *)
(* are multiples of 1/1000 for a balance factor and a fill ratio given in  *)
(* tenths); the perturbed passes and the scorer round down to 1/1000.      *)
(* Infinity is a sentinel above every finite value.  The model covers      *)
(* strictly positive token widths.                                         *)
(*                                                                         *)
(* Math.random() is an ambient generator: each perturbed pass draws its    *)
(* numbers from a linear congruential stream whose starting point is       *)
(* chosen nondeterministically for every pass.                             *)
(***************************************************************************)
EXTENDS Integers, Sequences, FiniteSets

\* ------------------------------------------------------------------ bounds
MaxTokens == 3

MaxCandidates == 2

MaxSeed == 3

\* The longest token array the annotators are called on.
MaxMetrics == 3

\* The number of annotator calls made on one token array.
MaxPasses == 2

\* The longest text whose partitions into lines are all enumerated.
MaxPartitioned == 10

\* The largest break index of the break patterns compared on their own.
MaxBreak == 3

\* The entries of a fixedExpressions list, and the turns of the exec loop
\* of markRegexExpression that are followed.
MaxExpressions == 2

MaxIterations == 3

\* --------------------------------------------------------------- constants
Infinity == 1000000000

MaxAttempts == 10

MaxVariants == 20

\* ------------------------------------------------------------------ inputs
\* The token texts the model draws from, with the width the (external)
\* measurement gives each of them.
Vocabulary == {"The", "jumps", "extraordinarily"}

MeasureWord(w) ==
  CASE w = "The" -> 3
    [] w = "jumps" -> 6
    [] OTHER -> 16

WordSeqs(k) == [1..k -> Vocabulary]

Measure(ws) == [i \in 1..Len(ws) |-> MeasureWord(ws[i])]

\* Width lists whose length differs from the token list's.
MismatchedWidths(ws) ==
  {[i \in 1..k |-> 3] : k \in (0..(MaxTokens + 1)) \ {Len(ws)}}

\* Long uniform texts around the two size limits of the diversity threshold.
LongLengths == {10, 11, 21}

LongWords == {[i \in 1..k |-> "The"] : k \in LongLengths}

TargetWidths == {-10, 0, 10}

BalanceFactors == {0, 5, 10}   \* balanceFactor in tenths: 0, 0.5, 1

Modes == {"fit", "fill"}

\* --------------------------------------------------------------- helpers
Min(a, b) == IF a <= b THEN a ELSE b

Max(a, b) == IF a >= b THEN a ELSE b

Abs(a) == IF a >= 0 THEN a ELSE 0 - a

\* a * b for two milli quantities, a >= 0 (rounded down to 1/1000)
MulMilli(a, b) == (a \div 1000) * b + ((a % 1000) * b) \div 1000

\* x + y where x may be Infinity
AddPenalty(x, y) == IF x >= Infinity THEN Infinity ELSE x + y

RECURSIVE SumSeq(_)
SumSeq(s) == IF s = <<>> THEN 0 ELSE Head(s) + SumSeq(Tail(s))

RECURSIVE SqrtSearch(_, _, _)
SqrtSearch(x, lo, hi) ==
  IF lo >= hi THEN lo
  ELSE LET mid == (lo + hi + 1) \div 2
       IN IF mid * mid <= x THEN SqrtSearch(x, mid, hi)
          ELSE SqrtSearch(x, lo, mid - 1)

\* floor of the square root (Math.sqrt, rounded down)
ISqrt(x) == SqrtSearch(x, 0, Min(x, 46340))


\* ------------------------------------------------------ solution helpers
\* reconstructSolution(words, breaks, j): breaks is the predecessor array
\* (0..n), words the token list (words[i] of the program is words[i + 1]).
RECURSIVE reconstructSolution(_, _, _)
reconstructSolution(words, breaks, j) ==
  IF j = 0 THEN <<>>
  ELSE Append(reconstructSolution(words, breaks, breaks[j]),
              [k \in 1..(j - breaks[j]) |-> words[breaks[j] + k]])

\* Number of tokens in the lines before line number l (1-based).
RECURSIVE WordsBefore(_, _)
WordsBefore(lines, l) ==
  IF l <= 1 THEN 0 ELSE WordsBefore(lines, l - 1) + Len(lines[l - 1])

LineWidthAt(lines, wordWidths, spaceWidth, l) ==
  LET wordIndex == WordsBefore(lines, l)
      line == lines[l]
  IN SumSeq([i \in 1..Len(line) |->
               wordWidths[wordIndex + i]
               + (IF i < Len(line) THEN spaceWidth ELSE 0)])

calculateLineWidths(lines, wordWidths, spaceWidth) ==
  [l \in 1..Len(lines) |-> LineWidthAt(lines, wordWidths, spaceWidth, l)]

\* Variant: the word count itself is pushed instead of wordCount - 1.
findBreakIndicesOffByOne(lines) ==
  [l \in 1..(Len(lines) - 1) |-> WordsBefore(lines, l + 1)]

\* Variant: wordCount is assigned, not accumulated.
findBreakIndicesNoAccumulate(lines) ==
  [l \in 1..(Len(lines) - 1) |-> Len(lines[l]) - 1]

\* findBreakIndices (lines 902-913): index of the last token of each line
\* but the last.

findBreakIndices(lines) ==
  [l \in 1..(Len(lines) - 1) |-> WordsBefore(lines, l + 1) - 1]

SeqToSet(s) == {s[i] : i \in 1..Len(s)}

\* Variant: only the breaks of the first pattern that the second lacks are
\* counted.
breakPatternDifferenceOneSided(pattern1, pattern2) ==
  Cardinality({i \in 1..Len(pattern1) : pattern1[i] \notin SeqToSet(pattern2)})
    + Abs(Len(pattern1) - Len(pattern2)) * 2

\* breakPatternDifference (lines 609-641); totalWords is not used.
breakPatternDifference(pattern1, pattern2) ==
  LET set1 == SeqToSet(pattern1)
      set2 == SeqToSet(pattern2)
      uniqueToPattern1 == Cardinality({i \in 1..Len(pattern1) : pattern1[i] \notin set2})
      uniqueToPattern2 == Cardinality({i \in 1..Len(pattern2) : pattern2[i] \notin set1})
      lineCountDiff == Abs(Len(pattern1) - Len(pattern2))
  IN uniqueToPattern1 + uniqueToPattern2 + lineCountDiff * 2

\* ------------------------------------------------------------------ scorer
\* Text tests of calculateScoreBreakdown, on the vocabulary of the model.
LowerCase(w) == IF w = "The" THEN "the" ELSE w

\* .replace(/[,.;:!?]$/, ''): no word of the vocabulary ends in punctuation
StripPunctuation(w) == IF w = "dog." THEN "dog" ELSE w

functionWords ==
  {"a", "an", "the", "of", "to", "in", "for", "with", "by", "at", "from",
   "on", "about", "and", "but", "or", "nor", "so", "yet", "as"}

EndsWithHyphen(w) == w \in {"well-"}

IsNumericWord(w) == w \in {"100"}

IsUnitWord(w) ==
  w \in {"px", "em", "%", "kg", "lb", "ft", "in", "cm", "mm", "m", "s",
         "ms", "gb", "mb", "kb"}

\* Protected-break violations counted at the end of line l (not the last).
ProtectedAtLine(lines, l) ==
  LET line == lines[l]
      lastWord == StripPunctuation(LowerCase(line[Len(line)]))
  IN (IF lastWord \in functionWords THEN 1 ELSE 0)
     + (IF EndsWithHyphen(lastWord) THEN 1 ELSE 0)
     + (IF IsNumericWord(lastWord) /\ IsUnitWord(LowerCase(lines[l + 1][1]))
        THEN 1 ELSE 0)

\* normalizedRaggedness, in milli percent
Raggedness(lineWidths, targetWidth) ==
  IF Len(lineWidths) <= 1 THEN 0
  ELSE LET m == Len(lineWidths) - 1
           total == SumSeq([i \in 1..m |->
                      (targetWidth - lineWidths[i]) * (targetWidth - lineWidths[i])])
       IN Min(100000,
              100 * ISqrt((total * 1000000) \div (targetWidth * targetWidth * m)))

\* normalizedEvenness, in milli percent.  The coefficient of variation is
\* sqrt(L * sum(w^2) - (sum w)^2) / sum w.
Evenness(lineWidths) ==
  LET L == Len(lineWidths)
      S == SumSeq(lineWidths)
      D == L * SumSeq([i \in 1..L |-> lineWidths[i] * lineWidths[i]]) - S * S
      cv == IF S > 0 THEN (ISqrt(D * 10000) * 10) \div S ELSE 0
  IN Max(0, Min(100000, 100000 - cv * 300))

\* avgFillRatio, in milli percent
FillRatio(lineWidths, targetWidth) ==
  LET m == IF Len(lineWidths) > 1 THEN Len(lineWidths) - 1 ELSE Len(lineWidths)
      totalWidth == SumSeq([i \in 1..m |-> Min(lineWidths[i], targetWidth)])
      totalAvailableWidth == m * targetWidth
  IN IF totalAvailableWidth > 0
     THEN (totalWidth * 100000) \div totalAvailableWidth
     ELSE 100000

calculateScoreBreakdown(lines, lineWidths, targetWidth, balanceFactor) ==
  IF Len(lines) = 0 \/ Len(lineWidths) = 0
  THEN [raggedness |-> 0, evenness |-> 100000, fillRatio |-> 100000,
        widows |-> 0, orphans |-> 0, protectedBreaks |-> 0,
        balanceFactor |-> balanceFactor, score |-> 0]
  ELSE
    LET normalizedRaggedness == Raggedness(lineWidths, targetWidth)
        normalizedEvenness == Evenness(lineWidths)
        avgFillRatio == FillRatio(lineWidths, targetWidth)
        widowCount ==
          IF Len(lines) > 1 /\ Len(lines[Len(lines)]) = 1 THEN 1 ELSE 0
        orphanCount == IF Len(lines[1]) = 1 THEN 1 ELSE 0
        protectedBreaks ==
          SumSeq([l \in 1..(Len(lines) - 1) |-> ProtectedAtLine(lines, l)])
        balancedRaggednessPenalty ==
          (normalizedRaggedness * 5 * balanceFactor) \div 100
        balancedEvennessPenalty ==
          ((100000 - normalizedEvenness) * 3 * (10 - balanceFactor)) \div 100
        fillPenalty == ((100000 - avgFillRatio) * 2) \div 10
    IN [raggedness |-> normalizedRaggedness,
        evenness |-> normalizedEvenness,
        fillRatio |-> avgFillRatio,
        widows |-> widowCount,
        orphans |-> orphanCount,
        protectedBreaks |-> protectedBreaks,
        balanceFactor |-> balanceFactor,
        score |-> balancedRaggednessPenalty + balancedEvennessPenalty
                  + fillPenalty + widowCount * 15000 + orphanCount * 10000
                  + protectedBreaks * 8000]


\* ------------------------------------------------ locale configuration
\* LocaleConfigManager (src/src/localization/LocaleConfigManager.js) and the
\* rule registry it starts from (rules/ruleConfigs.js).  A configuration is
\* a record; word lists are sets of words (they are only searched), rule
\* lists are sequences, and a phrase is the sequence of its words (the
\* program splits it on white space).  Hyphenated and pattern phrases match
\* no text of the model and are left out of the lists.
\* A value that is absent (undefined).
Undefined == [undefined |-> TRUE]

\* The locales of the model: the baseline, a shipped locale, and a locale
\* that neither the registry nor SUPPORTED_LOCALES knows.
Locales == {"en", "fr", "xx"}

\* A call without a locale argument.
NoLocale == "undefined"

DEFAULT_LOCALE == "en"

FALLBACK_LOCALE == "en"

SUPPORTED_LOCALES == {"en", "de", "fr", "es", "ja"}

\* The token texts of the annotator's inputs.
TokenTexts == {"100", "%", "KM", "Apple", "Music", "Super"}

\* The separator of a token that has none.
NoSeparator == ""

\* toLowerCase() on the texts and list entries of the model.
ToLower(w) ==
  CASE w = "KM" -> "km"
    [] w = "Apple" -> "apple"
    [] w = "Music" -> "music"
    [] w = "Super" -> "super"
    [] w = "Bowl" -> "bowl"
    [] w = "One" -> "one"
    [] w = "The" -> "the"
    [] OTHER -> w

\* CONFIG.REGEX_PATTERNS.NUMERIC, /^\d+$/
MatchesNumeric(w) == w \in {"100"}

\* CONFIG.REGEX_PATTERNS.PROPER_NOUN: a capital, then lower-case letters.
MatchesProperNoun(w) == w \in {"Apple", "Music", "Super", "Bowl", "One", "The"}

\* hyphenChars (line 299): hyphen, non-breaking hyphen, en dash, em dash
hyphenChars == {"-", "non-breaking hyphen", "en dash", "em dash"}

\* The texts of the model that end with a hyphen-like character, and the
\* character each ends with ("" for every other text).
HyphenTexts ==
  {"well-", "well[non-breaking hyphen]", "well[en dash]", "well[em dash]"}

TextEnd(w) ==
  CASE w = "well-" -> "-"
    [] w = "well[non-breaking hyphen]" -> "non-breaking hyphen"
    [] w = "well[en dash]" -> "en dash"
    [] w = "well[em dash]" -> "em dash"
    [] OTHER -> ""

\* hyphenChars.some(char => text.endsWith(char)) (line 302)
EndsWithHyphenChar(w) == TextEnd(w) \in hyphenChars

\* rules/fr.js, its lists cut down to the entries that share a word with
\* the texts of the model, and one more entry each.
frRules ==
  [locale |-> "fr",
   rules |-> [avoidBreakBefore |-> <<"punctuation", "articles", "prepositions">>,
              avoidBreakAfter |-> <<"hyphen", "numeric", "articles">>,
              avoidBreakBetween |-> <<"appleServices", "appGameNames",
                                      "personNames", "adjectiveNoun">>],
   articles |-> {"le", "la"},
   prepositions |-> {"dans", "de"},
   adjectives |-> {"petit"},
   personNamePrefixes |-> {"Dr"},
   appleServices |-> << <<"Apple", "One">>, <<"Apple", "Music">>,
                        <<"Apple", "Music", "Super", "Bowl">> >>,
   appGameNames |-> << <<"Monopoly", "Go">> >>,
   percentSymbols |-> {"%"},
   unitsOfMeasure |-> {"km", "m"},
   punctuation |-> {".", ":", ";", "!", "?"}]

\* rules/ruleConfigs.js: the registry the manager is constructed with (of
\* its four locales the model keeps "fr"; "en" has no entry).
ruleConfigs == [l \in Locales |-> IF l = "fr" THEN frRules ELSE Undefined]

\* createDefaultConfig (lines 90-111)
createDefaultConfig(locale) ==
  [locale |-> locale,
   rules |-> [avoidBreakBefore |-> <<>>, avoidBreakAfter |-> <<>>,
              avoidBreakBetween |-> <<>>, specialCases |-> <<>>],
   functionWords |-> {},
   prepositions |-> {},
   appleServices |-> <<>>,
   appGameNames |-> <<>>,
   fixedExpressions |-> <<>>,
   percentSymbols |-> {"%"},
   unitsOfMeasure |-> {},
   punctuation |-> {".", ":", ";", "!", "?"},
   periods |-> {"."},
   adjectives |-> {},
   personNamePrefixes |-> {}]

\* { ...a, ...b }
Spread(a, b) ==
  [f \in DOMAIN a \cup DOMAIN b |-> IF f \in DOMAIN b THEN b[f] ELSE a[f]]

\* normalizeConfig (lines 119-130)
normalizeConfig(config, locale) ==
  LET defaultConfig == createDefaultConfig(locale)
  IN [Spread(defaultConfig, config) EXCEPT
        !.rules = Spread(defaultConfig.rules,
                         IF "rules" \in DOMAIN config THEN config.rules
                         ELSE [avoidBreakBefore |-> <<>>])]

\* getConfig, lines 65-74: the entry of the locale, else the entry of the
\* fallback locale, else the default configuration.
ResolveConfig(registry, locale) ==
  IF registry[locale] /= Undefined THEN registry[locale]
  ELSE IF locale /= FALLBACK_LOCALE /\ registry[FALLBACK_LOCALE] /= Undefined
       THEN registry[FALLBACK_LOCALE]
       ELSE createDefaultConfig(locale)

\* The locale a call is made with once the default parameter is applied.
LocaleArg(locale) == IF locale = NoLocale THEN DEFAULT_LOCALE ELSE locale

\* Variant: the cache is not consulted.
GetConfigValueUncached(registry, held, locale) ==
  normalizeConfig(ResolveConfig(registry, locale), locale)

\* getConfig (lines 58-83): the value returned, held being the cache.
GetConfigValue(registry, held, locale) ==
  IF held[locale] /= Undefined THEN held[locale]
  ELSE normalizeConfig(ResolveConfig(registry, locale), locale)

\* getConfig: the cache after the call.
CacheAfterGet(registry, held, locale) ==
  [held EXCEPT ![locale] = GetConfigValue(registry, held, locale)]

\* isSupported (lines 137-139)
isSupported(registry, locale) ==
  locale \in SUPPORTED_LOCALES
  \/ (locale \in DOMAIN registry /\ registry[locale] /= Undefined)

\* Variant: the baseline locale is not set apart.
needsLocalizationOfSupported(registry, locale) ==
  locale /= NoLocale /\ isSupported(registry, locale)

\* needsLocalization (lines 154-156)
needsLocalization(registry, locale) ==
  locale /= NoLocale /\ locale /= DEFAULT_LOCALE /\ isSupported(registry, locale)

\* getRuleList (lines 164-166)
getRuleList(config, ruleName) ==
  IF ruleName \in DOMAIN config THEN config[ruleName]
  ELSE IF ruleName \in DOMAIN config.rules THEN config.rules[ruleName]
  ELSE {}

\* getRuleList for a list of phrases
getPhraseList(config, ruleName) ==
  IF ruleName \in DOMAIN config THEN config[ruleName]
  ELSE IF ruleName \in DOMAIN config.rules THEN config.rules[ruleName]
  ELSE <<>>

\* matchesList (lines 174-177)
matchesList(word, list) == \E entry \in list : ToLower(word) = ToLower(entry)

\* The phrase lies on the words from position start (0-based) on.
PhraseAt(words, start, phrase) ==
  /\ start >= 0
  /\ start + Len(phrase) <= Len(words)
  /\ \A j \in 1..Len(phrase) : ToLower(words[start + j]) = ToLower(phrase[j])

\* breakSplitsPhrase (lines 206-253), for plain phrases
breakSplitsPhrase(breakIdx, words, phraseList) ==
  \E p \in 1..Len(phraseList) :
    LET phraseWords == phraseList[p]
    IN /\ Len(phraseWords) >= 2
       /\ \E start \in Max(0, breakIdx - Len(phraseWords) + 2)
                       ..Min(breakIdx, Len(words) - Len(phraseWords)) :
            /\ PhraseAt(words, start, phraseWords)
            /\ breakIdx >= start
            /\ breakIdx < start + Len(phraseWords) - 1

\* A rule list contains the rule.
Includes(list, rule) == \E r \in 1..Len(list) : list[r] = rule

\* The rule list of a context in config.rules ("avoidBreak" + Context).
ContextRules(config, context) ==
  LET ruleName == CASE context = "before" -> "avoidBreakBefore"
                    [] context = "after" -> "avoidBreakAfter"
                    [] OTHER -> "avoidBreakBetween"
  IN IF ruleName \in DOMAIN config.rules THEN config.rules[ruleName] ELSE <<>>

\* Variant: the numeric rule looks at the units of measure only.
NumericRuleUnitsOnly(config, current, next) ==
  /\ MatchesNumeric(current)
  /\ matchesList(next, getRuleList(config, "unitsOfMeasure"))

\* applyRule, case 'numeric' in the context 'after' (lines 305-311)
NumericRule(config, current, next) ==
  /\ MatchesNumeric(current)
  /\ \/ matchesList(next, getRuleList(config, "unitsOfMeasure"))
     \/ matchesList(next, getRuleList(config, "percentSymbols"))

\* applyRule (lines 268-325); current and next are tokens (records with a
\* text and a separator), words and index serve the context 'between'.
applyRule(rule, context, current, next, config, words, index) ==
  /\ Includes(ContextRules(config, context), rule)
  /\ CASE rule = "punctuation" ->
            /\ context \in {"before", "after"}
            /\ matchesList(IF context = "before" THEN next.text ELSE current.text,
                           getRuleList(config, "punctuation"))
       [] rule \in {"articles", "prepositions", "functionWords"} ->
            LET listName ==
                  IF rule = "articles"
                  THEN IF "articles" \in DOMAIN config /\ config.articles /= {}
                       THEN "articles" ELSE "functionWords"
                  ELSE rule
            IN /\ context \in {"before", "after"}
               /\ matchesList(IF context = "before" THEN next.text
                              ELSE current.text,
                              getRuleList(config, listName))
       [] rule = "hyphen" ->
            /\ context \in {"before", "after"}
            /\ \/ current.separator \in hyphenChars
               \/ EndsWithHyphenChar(current.text)
       [] rule = "numeric" ->
            context = "after" /\ NumericRule(config, current.text, next.text)
       [] rule \in {"fixedExpressions", "appleServices", "appGameNames"} ->
            /\ context = "between"
            /\ breakSplitsPhrase(index, words, getPhraseList(config, rule))
       [] OTHER -> FALSE

\* ------------------------------------------------------- the annotator
\* UniversalRuleProcessor (src/unnamed/part_005).  A token is a record of
\* its text, its separator, its lineBreaking disposition and the number of
\* entries of its _appliedRules list.
\* The rule tests read the texts only, so the marks of one pass are given
\* token by token.
Token(text, separator) ==
  [text |-> text, separator |-> separator, lineBreaking |-> "allow",
   applied |-> 0]

\* { text: word }
TextOnly(word) == [text |-> word, separator |-> NoSeparator]

Texts(metrics) == [i \in 1..Len(metrics) |-> metrics[i].text]

Dispositions(metrics) == [i \in 1..Len(metrics) |-> metrics[i].lineBreaking]

\* The lengths of the _appliedRules lists of the tokens.
AppliedRules(metrics) == [i \in 1..Len(metrics) |-> metrics[i].applied]

\* Variant: the disposition of a token marked before is switched back.
MarkTimesToggle(metric, hits) ==
  IF hits = 0 THEN metric
  ELSE [metric EXCEPT
          !.lineBreaking = IF metric.applied > 0 THEN "allow" ELSE "avoid",
          !.applied = @ + hits]

\* lineBreaking = AVOID and addRuleMetadata (lines 419-430), hits times.
MarkTimes(metric, hits) ==
  IF hits = 0 THEN metric
  ELSE [metric EXCEPT !.lineBreaking = "avoid", !.applied = @ + hits]

\* The rules of a context that hold for the token at position i (1-based)
\* and the one after it.
RuleHits(metrics, config, context, i) ==
  LET rules == ContextRules(config, context)
  IN Cardinality({r \in 1..Len(rules) :
       applyRule(rules[r], context, metrics[i], metrics[i + 1],
                 config, <<>>, i - 1)})

\* applyBeforeRules and applyAfterRules (lines 46-95)
applyContextRules(metrics, config, context) ==
  [i \in 1..Len(metrics) |->
     IF i < Len(metrics)
     THEN MarkTimes(metrics[i], RuleHits(metrics, config, context, i))
     ELSE metrics[i]]

\* The starts (0-based) at which the words of a phrase lie on the tokens.
MatchStarts(metrics, phrase) ==
  {s \in 0..(Len(metrics) - Len(phrase)) : PhraseAt(Texts(metrics), s, phrase)}

\* markServiceName (lines 364-384) and the loop of markMultiWordExpression
\* (lines 339-355): every token of every match is marked.
markPhrase(metrics, phrase) ==
  [t \in 1..Len(metrics) |->
     MarkTimes(metrics[t],
       Cardinality({s \in MatchStarts(metrics, phrase) :
                      s < t /\ t <= s + Len(phrase)}))]

\* markMultiWordExpression (lines 335-356)
markMultiWordExpression(metrics, expression) ==
  IF Len(expression) < 2 THEN metrics ELSE markPhrase(metrics, expression)

\* includes(): the words of the phrase, joined by spaces, occur in the
\* joined texts (on the texts of the model a word never spans two tokens).
FullTextIncludes(metrics, phrase) == MatchStarts(metrics, phrase) /= {}

\* applyServiceNameRules (lines 179-191), from service number k on
RECURSIVE applyServiceNameRules(_, _, _)
applyServiceNameRules(metrics, services, k) ==
  IF k > Len(services) THEN metrics
  ELSE applyServiceNameRules(
         IF services[k] /= <<>> /\ FullTextIncludes(metrics, services[k])
         THEN markPhrase(metrics, services[k]) ELSE metrics,
         services, k + 1)

\* applyFixedExpressionRules (lines 154-171), from expression number k on
RECURSIVE applyFixedExpressionRules(_, _, _)
applyFixedExpressionRules(metrics, expressions, k) ==
  IF k > Len(expressions) THEN metrics
  ELSE applyFixedExpressionRules(
         markMultiWordExpression(metrics, expressions[k]), expressions, k + 1)

\* applyPersonNameRules (lines 198-211)
applyPersonNameRules(metrics, config) ==
  [i \in 1..Len(metrics) |->
     IF /\ i < Len(metrics)
        /\ matchesList(metrics[i].text, getRuleList(config, "personNamePrefixes"))
        /\ MatchesProperNoun(metrics[i + 1].text)
     THEN MarkTimes(metrics[i], 1) ELSE metrics[i]]

\* applyAdjectiveNounRules (lines 218-229)
applyAdjectiveNounRules(metrics, config) ==
  [i \in 1..Len(metrics) |->
     IF /\ i < Len(metrics)
        /\ matchesList(metrics[i].text, getRuleList(config, "adjectives"))
     THEN MarkTimes(metrics[i], 1) ELSE metrics[i]]

\* applyProperNounRules (lines 236-247)
applyProperNounRules(metrics) ==
  [i \in 1..Len(metrics) |->
     IF /\ i < Len(metrics)
        /\ MatchesProperNoun(metrics[i].text)
        /\ MatchesProperNoun(metrics[i + 1].text)
     THEN MarkTimes(metrics[i], 1) ELSE metrics[i]]

\* applyGenericPhraseRules (lines 255-265)
applyGenericPhraseRules(metrics, config, rule) ==
  [i \in 1..Len(metrics) |->
     IF breakSplitsPhrase(i - 1, Texts(metrics), getPhraseList(config, rule))
     THEN MarkTimes(metrics[i], 1) ELSE metrics[i]]

\* One rule of applyBetweenRules (the switch of lines 107-130).
applyBetweenRule(metrics, config, rule) ==
  CASE rule = "fixedExpressions" ->
         applyFixedExpressionRules(metrics,
           getPhraseList(config, "fixedExpressions"), 1)
    [] rule \in {"appleServices", "appGameNames"} ->
         applyServiceNameRules(metrics, getPhraseList(config, rule), 1)
    [] rule = "personNames" -> applyPersonNameRules(metrics, config)
    [] rule = "adjectiveNoun" -> applyAdjectiveNounRules(metrics, config)
    [] rule = "properNounSequence" -> applyProperNounRules(metrics)
    [] OTHER -> applyGenericPhraseRules(metrics, config, rule)

\* applyBetweenRules (lines 102-132), from rule number k on
RECURSIVE applyBetweenRules(_, _, _)
applyBetweenRules(metrics, config, k) ==
  IF k > Len(ContextRules(config, "between")) THEN metrics
  ELSE applyBetweenRules(
         applyBetweenRule(metrics, config, ContextRules(config, "between")[k]),
         config, k + 1)

\* applySpecialCases (lines 139-147, 273-280), from key number k on; the
\* keys of the model are plain phrases.
RECURSIVE applySpecialCases(_, _, _)
applySpecialCases(metrics, keys, k) ==
  IF k > Len(keys) THEN metrics
  ELSE applySpecialCases(markMultiWordExpression(metrics, keys[k]), keys, k + 1)

\* processWordMetrics, lines 33-34: the tokens after the before-rules and
\* the after-rules.
contextPasses(metrics, config) ==
  applyContextRules(applyContextRules(metrics, config, "before"),
                    config, "after")

\* processWordMetrics, lines 33-35: the tokens after the between-rules.
betweenPass(metrics, config) ==
  applyBetweenRules(contextPasses(metrics, config), config, 1)

\* processWordMetrics (lines 24-39) with the configuration getConfig
\* returned: the four passes, on the token objects of the input.
processWith(metrics, config) ==
  IF Len(metrics) = 0 THEN metrics
  ELSE applySpecialCases(betweenPass(metrics, config),
                         config.rules.specialCases, 1)

\* isBreakViolation (lines 466-504); breakIdx and the positions of the
\* program are 0-based, words is 1-based.
isBreakViolation(breakIdx, words, config) ==
  /\ ~(breakIdx <= 0 \/ breakIdx >= Len(words) - 1)
  /\ \/ \E r \in 1..Len(ContextRules(config, "before")) :
          applyRule(ContextRules(config, "before")[r], "before",
                    TextOnly(words[breakIdx]), TextOnly(words[breakIdx + 1]),
                    config, words, breakIdx)
     \/ \E r \in 1..Len(ContextRules(config, "after")) :
          applyRule(ContextRules(config, "after")[r], "after",
                    TextOnly(words[breakIdx]), TextOnly(words[breakIdx + 1]),
                    config, words, breakIdx)
     \/ \E r \in 1..Len(ContextRules(config, "between")) :
          applyRule(ContextRules(config, "between")[r], "between",
                    Undefined, Undefined, config, words, breakIdx)

\* The candidates of a list that a test keeps, in their order.
RECURSIVE FilterSeq(_, _)
FilterSeq(s, keep) ==
  IF s = <<>> THEN <<>>
  ELSE IF keep[Len(s)]
       THEN Append(FilterSeq(SubSeq(s, 1, Len(s) - 1), keep), s[Len(s)])
       ELSE FilterSeq(SubSeq(s, 1, Len(s) - 1), keep)

\* filterCandidates (lines 439-457) with the configuration of the locale
filterCandidates(cands, words, registry, config, locale) ==
  IF ~needsLocalization(registry, locale) THEN cands
  ELSE FilterSeq(cands,
         [c \in 1..Len(cands) |->
            \A b \in 1..Len(cands[c].breaks) :
              ~isBreakViolation(cands[c].breaks[b], words, config)])

\* annotateLineBreakingWithSeparators (ruleEngine.js, lines 33-64);
\* ruleConfig is an entry of the registry or Undefined.
annotateLineBreakingWithSeparators(metrics, ruleConfig) ==
  LET rules == IF "rules" \in DOMAIN ruleConfig THEN ruleConfig.rules
               ELSE [none |-> <<>>]
      afterRules == IF "avoidBreakAfter" \in DOMAIN rules
                    THEN rules.avoidBreakAfter ELSE <<>>
      beforeRules == IF "avoidBreakBefore" \in DOMAIN rules
                     THEN rules.avoidBreakBefore ELSE <<>>
      periods == IF "periods" \in DOMAIN ruleConfig THEN ruleConfig.periods
                 ELSE {}
  IN [i \in 1..Len(metrics) |->
        IF /\ i < Len(metrics)
           /\ \/ /\ Includes(afterRules, "hyphen")
                 /\ metrics[i].separator \in {"-", "non-breaking hyphen"}
              \/ /\ Includes(beforeRules, "period")
                 /\ metrics[i + 1].text \in periods
        THEN [metrics[i] EXCEPT !.lineBreaking = "avoid"]
        ELSE metrics[i]]

\* --------------------------------------------- the localized optimizer
\* src/src/localized_line_breaking.js (lines 11-146).
\* enhanceWordMetricsWithLocalization, lines 13-15: the input is returned
\* as it is.
EnhanceSkipsLocale(locale) == locale = NoLocale \/ locale = "en"

\* getLineBreakingRules (segmenter.js, lines 177-179)
getLineBreakingRules(registry, locale) ==
  IF locale \in DOMAIN registry THEN registry[locale] ELSE Undefined

\* A break index of a candidate that lines 69-91 reject; breakIdx is
\* 0-based, words is 1-based.
LocalizationViolation(rules, words, breakIdx) ==
  /\ ~(breakIdx <= 0 \/ breakIdx >= Len(words) - 1)
  /\ LET prevWord == words[breakIdx + 1]
         nextWord == words[breakIdx + 2]
         listed(name, rule) ==
           /\ name \in DOMAIN rules.rules
           /\ Includes(rules.rules[name], rule)
     IN \/ listed("avoidBreakAfter", "hyphen") /\ TextEnd(prevWord) = "-"
        \/ /\ listed("avoidBreakBefore", "articles")
           /\ "functionWords" \in DOMAIN rules
           /\ ToLower(nextWord) \in rules.functionWords
        \/ /\ listed("avoidBreakWithin", "compounds")
           /\ TextEnd(prevWord) = "-"

\* filterCandidatesByLocalizationRules (lines 53-97)
filterCandidatesByLocalizationRules(cands, words, registry, locale) ==
  LET rules == getLineBreakingRules(registry, locale)
  IN IF rules = Undefined \/ "rules" \notin DOMAIN rules THEN cands
     ELSE FilterSeq(cands,
            [c \in 1..Len(cands) |->
               \A b \in 1..Len(cands[c].breaks) :
                 ~LocalizationViolation(rules, words, cands[c].breaks[b])])

\* The function createLocalizedLineBreakOptimizer returns (lines 127-145),
\* cands being what the original optimizer returned.
LocalizedResult(cands, words, registry, locale) ==
  IF locale /= NoLocale /\ locale /= "en"
  THEN filterCandidatesByLocalizationRules(cands, words, registry, locale)
  ELSE cands

\* ------------------------------------------- pattern entries of a config
\* fixedExpressions entries as rules/de.js writes them (lines 97-100): a
\* plain phrase, a pattern, a pattern with an unclosed group and a pattern
\* that matches the empty string.
ExpressionPatterns == {"Apple Music", "Opus \\d+", "Opus (\\d+", "\\d*"}

\* expression.includes('\\')
IncludesBackslash(pattern) == pattern \in {"Opus \\d+", "Opus (\\d+", "\\d*"}

\* new RegExp(pattern, flags) returns; it throws a SyntaxError otherwise.
Compiles(pattern) == pattern /= "Opus (\\d+"

\* The pattern matches the empty string.
MatchesEmpty(pattern) == pattern = "\\d*"

\* The pattern word by word (split at the spaces).
PatternParts(pattern) ==
  CASE pattern = "Apple Music" -> <<"Apple", "Music">>
    [] pattern = "Opus \\d+" -> <<"Opus", "\\d+">>
    [] pattern = "Opus (\\d+" -> <<"Opus", "(\\d+">>
    [] OTHER -> <<pattern>>

\* A word of a compiled pattern matches a whole text (flag i).
PartMatches(part, text) ==
  IF part \in {"\\d+", "\\d*"} THEN MatchesNumeric(text)
  ELSE ToLower(part) = ToLower(text)

\* new RegExp('^' + pattern + '$', 'i').test(texts.join(' '))
AnchoredMatch(pattern, texts) ==
  /\ Len(texts) = Len(PatternParts(pattern))
  /\ \A j \in 1..Len(texts) : PartMatches(PatternParts(pattern)[j], texts[j])

\* text.length on the texts of the expression scenarios
TextLength(w) ==
  CASE w = "Opus" -> 4
    [] w = "100" -> 3
    [] OTHER -> 5

\* metricStart and metricEnd of markRangeInMetrics (lines 397-407) for the
\* token at position i (1-based): offsets in the texts joined by spaces.
MetricStart(metrics, i) ==
  SumSeq([j \in 1..(i - 1) |-> TextLength(metrics[j].text) + 1])

MetricEnd(metrics, i) == MetricStart(metrics, i) + TextLength(metrics[i].text)

\* fullText.length (line 313)
FullTextLength(metrics) ==
  IF Len(metrics) = 0 THEN 0 ELSE MetricEnd(metrics, Len(metrics))

\* The token positions (0-based) at which a match of a compiled pattern
\* that does not match the empty string starts.
PatternStarts(metrics, pattern) ==
  {s \in 0..(Len(metrics) - Len(PatternParts(pattern))) :
     AnchoredMatch(pattern,
       SubSeq(Texts(metrics), s + 1, s + Len(PatternParts(pattern))))}

\* regex.exec(fullText) returns null.
NoMatch == [index |-> 0 - 1, end |-> 0 - 1]

\* regex.exec(fullText) of a compiled pattern with the flag g (line 319):
\* the leftmost match from lastIndex on, as match.index and the offset of
\* its end.  A pattern that matches the empty string matches at lastIndex
\* itself: the digits that begin there, or nothing.
exec(pattern, metrics, lastIndex) ==
  IF lastIndex > FullTextLength(metrics) THEN NoMatch
  ELSE IF MatchesEmpty(pattern)
  THEN LET inside == {i \in 1..Len(metrics) :
                        /\ MatchesNumeric(metrics[i].text)
                        /\ MetricStart(metrics, i) <= lastIndex
                        /\ lastIndex < MetricEnd(metrics, i)}
       IN [index |-> lastIndex,
           end |-> IF inside = {} THEN lastIndex
                   ELSE MetricEnd(metrics, CHOOSE i \in inside : TRUE)]
  ELSE LET starts == {s \in PatternStarts(metrics, pattern) :
                        MetricStart(metrics, s + 1) >= lastIndex}
       IN IF starts = {} THEN NoMatch
          ELSE LET s == CHOOSE first \in starts :
                          \A other \in starts : first <= other
               IN [index |-> MetricStart(metrics, s + 1),
                   end |-> MetricEnd(metrics, s + Len(PatternParts(pattern)))]

\* The test of markRangeInMetrics on a token (lines 401-403).
InRange(metrics, i, startPos, endPos) ==
  LET metricStart == MetricStart(metrics, i)
      metricEnd == MetricEnd(metrics, i)
  IN \/ metricStart >= startPos /\ metricStart < endPos
     \/ metricEnd > startPos /\ metricEnd <= endPos
     \/ metricStart < startPos /\ metricEnd > endPos

\* markRangeInMetrics (lines 394-409)
markRangeInMetrics(metrics, startPos, endPos) ==
  [i \in 1..Len(metrics) |->
     IF InRange(metrics, i, startPos, endPos) THEN MarkTimes(metrics[i], 1)
     ELSE metrics[i]]

\* breakSplitsPhrase (lines 206-253) on pattern entries, none of which
\* has a hyphen: the windows of lines 223-231 for an entry with a
\* backslash, the catch of line 230 leaving out an entry that does not
\* compile, and the words of lines 235-249 for a plain entry.
breakSplitsPattern(breakIdx, words, phraseList) ==
  \E p \in 1..Len(phraseList) :
    LET phrase == phraseList[p]
    IN IF IncludesBackslash(phrase)
       THEN \E win \in 2..5 :
              \E start \in Max(0, breakIdx - win + 1)
                           ..Min(breakIdx, Len(words) - win) :
                /\ Compiles(phrase)
                /\ AnchoredMatch(phrase, SubSeq(words, start + 1, start + win))
                /\ breakIdx >= start
                /\ breakIdx < start + win - 1
       ELSE breakSplitsPhrase(breakIdx, words, <<PatternParts(phrase)>>)

\* isFixedExpressionOrAppleService (ruleEngine.js, lines 123-149) for a
\* configuration without appleServices, from entry k on: "raised" when
\* new RegExp throws (line 130, nothing catches it).
RECURSIVE isFixedExpressionOrAppleService(_, _, _, _)
isFixedExpressionOrAppleService(curr, next, fixedExpressions, k) ==
  IF k > Len(fixedExpressions) THEN "false"
  ELSE IF ~Compiles(fixedExpressions[k]) THEN "raised"
  ELSE IF AnchoredMatch(fixedExpressions[k], <<curr.text, next.text>>)
  THEN "true"
  ELSE isFixedExpressionOrAppleService(curr, next, fixedExpressions, k + 1)

\* applySegmentationRules (ruleEngine.js, lines 74-312) with a
\* configuration whose only rule is the between-rule "fixedExpressions", on
\* tokens separated by spaces: the pair loop of lines 235-252.  The call
\* raises at the first pair whose check raises; the violations are the
\* indices (0-based) it returns otherwise.
applySegmentationRules(metrics, ruleConfig) ==
  LET verdict(i) ==
        isFixedExpressionOrAppleService(metrics[i], metrics[i + 1],
                                        ruleConfig.fixedExpressions, 1)
      pairs == 1..(Len(metrics) - 1)
      checks == Includes(ruleConfig.rules.avoidBreakBetween, "fixedExpressions")
      raised == checks /\ \E i \in pairs : verdict(i) = "raised"
  IN [raised |-> raised,
      violations |-> IF raised \/ ~checks THEN {}
                     ELSE {i - 1 : i \in {j \in pairs : verdict(j) = "true"}}]

\* ------------------------------------------------------------------- state
VARIABLES
  words, wordWidths, spaceWidth, targetWidth, candidateCount,
  balanceFactor, minFillRatio, mode,
  pc, candidates, generatedBreakPatterns, minDifferenceThreshold,
  attemptCount, variant, result,
  locale, enhanced, localized, filtered, run, firstResult,
  configs, cache, returned, lastCall,
  metrics, passes

inputs ==
  <<words, wordWidths, spaceWidth, targetWidth, candidateCount,
    balanceFactor, minFillRatio, mode>>

vars ==
  <<words, wordWidths, spaceWidth, targetWidth, candidateCount,
    balanceFactor, minFillRatio, mode,
    pc, candidates, generatedBreakPatterns, minDifferenceThreshold,
    attemptCount, variant, result,
    locale, enhanced, localized, filtered, run, firstResult,
    configs, cache, returned, lastCall,
    metrics, passes>>

\* The state of the localized pipeline around computeBreaks.
pipelineVars == <<locale, enhanced, localized, filtered, run, firstResult>>

\* The state of the configuration manager and the last call made to it.
managerVars == <<configs, cache, returned, lastCall>>

\* The tokens the annotator works on and the calls made on them.
annotatorVars == <<metrics, passes>>

n == Len(words)

\* --------------------------------------------------- the unperturbed DP
\* Penalty (milli) of one line of the given width; balanceFactor and
\* minFillRatio are in tenths.  Reached only with targetWidth > 0 (a line of
\* positive width never passes the width test otherwise).
LinePenalty(width) ==
  LET base ==
        IF mode = "fill" THEN Abs(targetWidth - width) * 1000
        ELSE IF width <= targetWidth
             THEN (targetWidth - width) * (10 - balanceFactor) * 50
             ELSE (width - targetWidth) * (10 + balanceFactor) * 150
      \* adjustedMinFillRatio, in hundredths
      adjustedMinFillRatio == 10 * minFillRatio + balanceFactor
  IN IF 100 * width < adjustedMinFillRatio * targetWidth
     THEN base + (adjustedMinFillRatio * targetWidth - 100 * width)
                 * (15 + balanceFactor)
     ELSE base

\* Variant: a line may be twice as wide as the target.
ExceedsTargetTwice(width) == width > 2 * targetWidth

\* width > targetWidth * 1.5
ExceedsTarget(width) == 2 * width > 3 * targetWidth

InitialArrays ==
  [penalties |-> [k \in 0..n |-> IF k = 0 THEN 0 ELSE Infinity],
   breaks |-> [k \in 0..n |-> 0]]

\* Variant: the first way found to reach position j + 1 is kept.
RelaxUnreached(st, i, j, totalPenalty) ==
  IF st.penalties[j + 1] >= Infinity /\ totalPenalty < Infinity
  THEN [penalties |-> [st.penalties EXCEPT ![j + 1] = totalPenalty],
        breaks |-> [st.breaks EXCEPT ![j + 1] = i]]
  ELSE st

\* Lines 385-389: keep the better predecessor of position j + 1.
Relax(st, i, j, totalPenalty) ==
  IF totalPenalty < st.penalties[j + 1]
  THEN [penalties |-> [st.penalties EXCEPT ![j + 1] = totalPenalty],
        breaks |-> [st.breaks EXCEPT ![j + 1] = i]]
  ELSE st

\* The inner loop (lines 341-390) from j on, for the line starting at word
\* i (0-based); width0 is the width of words i..j-1.
RECURSIVE MainInner(_, _, _, _)
MainInnerAt(st, i, j, width) ==
  IF ExceedsTarget(width) THEN st
  ELSE MainInner(Relax(st, i, j, AddPenalty(st.penalties[i], LinePenalty(width))),
                 i, j + 1, width)

MainInner(st, i, j, width0) ==
  IF j >= n THEN st
  ELSE MainInnerAt(st, i, j,
         width0 + wordWidths[j + 1] + (IF j > i THEN spaceWidth ELSE 0))

\* The outer loop (line 337) from i on.  The test on breaks[0], which is
\* never written and stays 0, only fixes the order of evaluation: the
\* arrays after the inner loop are computed before the next i starts.
RECURSIVE MainOuter(_, _)
MainOuterNext(next, i) ==
  IF next.breaks[0] = 0 THEN MainOuter(next, i + 1) ELSE next

MainOuter(st, i) ==
  IF i >= n THEN st ELSE MainOuterNext(MainInner(st, i, i, 0), i)

MainDP == MainOuter(InitialArrays, 0)

\* A candidate record from its lines, their widths and its score.
CandidateOf(lines, lineWidths, score) ==
  [lines |-> lines,
   breaks |-> findBreakIndices(lines),
   score |-> score,
   scoreBreakdown |->
     calculateScoreBreakdown(lines, lineWidths, targetWidth, balanceFactor),
   lineWidths |-> lineWidths]

CandidateOfLines(lines, score) ==
  CandidateOf(lines, calculateLineWidths(lines, wordWidths, spaceWidth), score)

\* Lines 394-408 and 524-565: the candidate of a finished DP pass.
CandidateOfPass(st) ==
  CandidateOfLines(reconstructSolution(words, st.breaks, n), st.penalties[n])

BestCandidate == CandidateOfPass(MainDP)

InitialThreshold(count) == IF count > 20 THEN 8 ELSE IF count > 10 THEN 5 ELSE 3

\* ---------------------------------------------------- the perturbed passes
\* The variants one call of findAlternatives runs.
VariantLimit == Min(MaxVariants, candidateCount * 2)

\* varianceFactor = 0.1 + variant * 0.15, in milli
VarianceFactor(v) == 100 + 150 * v

\* variantTargetWidth, in milli
VariantTargetWidth(v) ==
  IF v % 4 = 0 THEN targetWidth * (950 - VarianceFactor(v) \div 10)
  ELSE IF v % 4 = 1 THEN targetWidth * (1050 + VarianceFactor(v) \div 10)
  ELSE IF v % 4 = 2 THEN targetWidth * (IF v % 2 = 0 THEN 900 ELSE 1100)
  ELSE targetWidth * 1000

\* width > variantTargetWidth * 1.5
ExceedsVariantTarget(v, width) == 2 * 1000 * width > 3 * VariantTargetWidth(v)

\* Lines 468-482: the penalty shape of variant v for a line of width w and
\* the variant's target width vtw (all milli).
ShapedPenalty(v, vtw, w) ==
  IF v % 3 = 0
  THEN IF w <= vtw THEN MulMilli(vtw - w, 300 + VarianceFactor(v))
       ELSE MulMilli(w - vtw, 2000 + VarianceFactor(v))
  ELSE IF v % 3 = 1
  THEN MulMilli(MulMilli(Abs(vtw - w), Abs(vtw - w)), 10 + VarianceFactor(v) \div 50)
  ELSE IF w <= vtw THEN MulMilli(vtw - w, 800 - (3 * VarianceFactor(v)) \div 10)
       ELSE MulMilli(w - vtw, 1500 + VarianceFactor(v))

\* Lines 486-493: positionFactor = i / n.
PositionedPenalty(v, i, penalty) ==
  IF v % 2 = 0 THEN MulMilli(penalty, 1000 + (i * VarianceFactor(v)) \div n)
  ELSE MulMilli(penalty, 1000 + ((n - i) * VarianceFactor(v)) \div n)

\* avgWordsPerLine, in milli
AvgWordsPerLine(lineLength) == (1000 * n) \div Max(n \div lineLength, 1)

\* Lines 496-503.
LengthPenalty(v, lineLength, penalty) ==
  IF 2 * Abs(1000 * lineLength - AvgWordsPerLine(lineLength))
       > AvgWordsPerLine(lineLength)
  THEN penalty + MulMilli(Abs(1000 * lineLength - AvgWordsPerLine(lineLength)) * 5,
                          VarianceFactor(v))
  ELSE penalty

\* Penalty (milli) of the line of words i..j (0-based) of the given width in
\* variant v, before the random perturbation.
AltLinePenalty(v, i, j, width) ==
  LengthPenalty(v, j - i + 1,
    PositionedPenalty(v, i,
      ShapedPenalty(v, VariantTargetWidth(v), 1000 * width)))

\* Math.random(): the next point of the stream; the value drawn is x / 16.
NextRand(x) == (5 * x + 3) % 16

\* Math.random() < varianceFactor * 0.3, for the point x drawn
DrawPerturbs(v, x) == x * 1000 < 16 * ((3 * VarianceFactor(v)) \div 10)

\* 0.9 + Math.random() * 0.2, in milli, for the point x drawn
PerturbFactor(x) == 900 + (x * 200) \div 16

\* Lines 506-512: the total penalty after the random perturbation, r1 being
\* the point drawn for the test.
Perturbed(v, plain, r1) ==
  IF DrawPerturbs(v, r1) /\ plain < Infinity
  THEN MulMilli(plain, PerturbFactor(NextRand(r1)))
  ELSE plain

\* The point of the stream drawn last after that.
RngAfter(v, r1) == IF DrawPerturbs(v, r1) THEN NextRand(r1) ELSE r1

\* Lines 515-519, with the stream's new point.
AltRelax(st, i, j, totalPenalty, rng) ==
  IF totalPenalty < st.penalties[j + 1]
  THEN [penalties |-> [st.penalties EXCEPT ![j + 1] = totalPenalty],
        breaks |-> [st.breaks EXCEPT ![j + 1] = i],
        rng |-> rng]
  ELSE [st EXCEPT !.rng = rng]

\* The inner loop of a perturbed pass (lines 450-520), as MainInner; st.rng
\* is the point of the random stream drawn last.
RECURSIVE AltInner(_, _, _, _, _)
AltInnerAt(v, st, i, j, width) ==
  IF ExceedsVariantTarget(v, width) THEN st
  ELSE AltInner(v,
         AltRelax(st, i, j,
           Perturbed(v, AddPenalty(st.penalties[i], AltLinePenalty(v, i, j, width)),
                     NextRand(st.rng)),
           RngAfter(v, NextRand(st.rng))),
         i, j + 1, width)

AltInner(v, st, i, j, width0) ==
  IF j >= n THEN st
  ELSE AltInnerAt(v, st, i, j,
         width0 + wordWidths[j + 1] + (IF j > i THEN spaceWidth ELSE 0))

\* The outer loop of a perturbed pass (line 447) from i on, as MainOuter.
RECURSIVE AltOuter(_, _, _)
AltOuterNext(v, next, i) ==
  IF next.breaks[0] = 0 THEN AltOuter(v, next, i + 1) ELSE next

AltOuter(v, st, i) ==
  IF i >= n THEN st ELSE AltOuterNext(v, AltInner(v, st, i, i, 0), i)

AltDP(v, seed) ==
  AltOuter(v, [penalties |-> InitialArrays.penalties,
               breaks |-> InitialArrays.breaks,
               rng |-> seed], 0)

AltCandidate(v, seed) == CandidateOfPass(AltDP(v, seed))

\* isUnique: the break pattern was not generated before (the joined string
\* of the program is the index list itself) and differs enough from every
\* candidate held.
\* Variant: no uniqueness test at all.
IsUniqueAlways(breakIndices) == TRUE

\* Variant: only the set of generated patterns is consulted.
IsUniquePatternOnly(breakIndices) ==
  breakIndices \notin generatedBreakPatterns

IsUnique(breakIndices) ==
  /\ breakIndices \notin generatedBreakPatterns
  /\ \A k \in 1..Len(candidates) :
       breakPatternDifference(breakIndices, candidates[k].breaks)
         >= minDifferenceThreshold

\* candidates.sort((a, b) => a.score - b.score): a stable sort; the
\* difference of two infinite scores is NaN, which the sort treats as 0.
RECURSIVE InsertByScore(_, _)
InsertByScore(sorted, c) ==
  IF sorted = <<>> THEN <<c>>
  ELSE IF sorted[Len(sorted)].score <= c.score THEN Append(sorted, c)
  ELSE Append(InsertByScore(SubSeq(sorted, 1, Len(sorted) - 1), c),
              sorted[Len(sorted)])

RECURSIVE SortPrefix(_, _)
SortPrefix(cands, k) ==
  IF k = 0 THEN <<>> ELSE InsertByScore(SortPrefix(cands, k - 1), cands[k])

\* Variant: the list is returned as collected.
SortByScoreSkipped(cands) == cands

SortByScore(cands) == SortPrefix(cands, Len(cands))

\* ------------------------------------------------------------ the machine
ShortWords == UNION {WordSeqs(k) : k \in 0..MaxTokens}

EmptyCache == [l \in Locales |-> Undefined]

\* computeBreaks alone: the manager is as constructed (lines 48-51), no
\* token is annotated and no filter has run.
OutsideComputeBreaks ==
  /\ locale = DEFAULT_LOCALE
  /\ enhanced = <<>>
  /\ localized = <<>>
  /\ filtered = <<>>
  /\ run = 1
  /\ firstResult = <<>>
  /\ configs = ruleConfigs
  /\ cache = EmptyCache
  /\ returned = Undefined
  /\ lastCall = [op |-> "none"]
  /\ metrics = <<>>
  /\ passes = 0

Init ==
  /\ \/ /\ words \in ShortWords
        /\ wordWidths \in {Measure(words)} \cup MismatchedWidths(words)
        /\ balanceFactor \in BalanceFactors
        /\ mode \in Modes
     \/ /\ words \in LongWords
        /\ wordWidths = Measure(words)
        /\ balanceFactor = 5
        /\ mode = "fit"
  /\ spaceWidth = 1
  /\ targetWidth \in TargetWidths
  /\ candidateCount \in 1..MaxCandidates
  /\ minFillRatio = 5
  /\ pc = "start"
  /\ candidates = <<>>
  /\ generatedBreakPatterns = {}
  /\ minDifferenceThreshold = 0
  /\ attemptCount = 0
  /\ variant = 0
  /\ result = <<>>
  /\ OutsideComputeBreaks

\* Variant: only a shorter width list is rejected.
InvalidInputShortOnly == Len(words) > Len(wordWidths) \/ Len(words) = 0

\* Lines 306-314: the input checks.
InvalidInput == Len(words) /= Len(wordWidths) \/ Len(words) = 0

\* Lines 400-413: the DP optimum is the first candidate.
StartWith(best) ==
  /\ candidates' = <<best>>
  /\ generatedBreakPatterns' = {best.breaks}

\* computeBreaks up to the search loop (lines 306-413, 576-577).
Enter ==
  /\ pc = "start"
  /\ IF InvalidInput
     THEN /\ result' = <<>>
          /\ pc' = "done"
          /\ UNCHANGED <<candidates, generatedBreakPatterns,
                         minDifferenceThreshold, attemptCount>>
     ELSE /\ StartWith(BestCandidate)
          /\ minDifferenceThreshold' = InitialThreshold(Len(words))
          /\ attemptCount' = 0
          /\ pc' = "while"
          /\ UNCHANGED result
  /\ UNCHANGED <<inputs, variant>>
  /\ UNCHANGED <<pipelineVars, managerVars, annotatorVars>>

\* The while test (line 579) and the entry into findAlternatives.
WhileTest ==
  /\ pc = "while"
  /\ IF Len(candidates) < candidateCount /\ attemptCount < MaxAttempts
     THEN pc' = "variant" /\ variant' = 0
     ELSE pc' = "sort" /\ UNCHANGED variant
  /\ UNCHANGED <<inputs, candidates, generatedBreakPatterns,
                 minDifferenceThreshold, attemptCount, result>>
  /\ UNCHANGED <<pipelineVars, managerVars, annotatorVars>>

\* Variant: the loop stops one candidate late.
EnoughCandidatesLate(held) == held > candidateCount

\* Stop if we have enough candidates (line 568).
EnoughCandidates(held) == held >= candidateCount

\* Lines 534-571: the layout of a pass is added if it is unique; the loop
\* ends when enough candidates are held or the variants are used up.
Consider(alt) ==
  IF IsUnique(alt.breaks)
  THEN /\ candidates' = Append(candidates, alt)
       /\ generatedBreakPatterns' = generatedBreakPatterns \cup {alt.breaks}
       /\ pc' = IF EnoughCandidates(Len(candidates) + 1)
                   \/ variant + 1 >= VariantLimit
                THEN "endAttempt" ELSE "variant"
  ELSE /\ UNCHANGED <<candidates, generatedBreakPatterns>>
       /\ pc' = IF variant + 1 >= VariantLimit THEN "endAttempt" ELSE "variant"

\* One iteration of the variant loop of findAlternatives (lines 417-572).
VariantPass ==
  /\ pc = "variant"
  /\ variant < VariantLimit
  /\ \E seed \in 0..MaxSeed : Consider(AltCandidate(variant, seed))
  /\ variant' = variant + 1
  /\ UNCHANGED <<inputs, minDifferenceThreshold, attemptCount, result>>
  /\ UNCHANGED <<pipelineVars, managerVars, annotatorVars>>

\* After findAlternatives returns (lines 581-586).
EndAttempt ==
  /\ pc = "endAttempt"
  /\ attemptCount' = attemptCount + 1
  /\ minDifferenceThreshold' =
       IF attemptCount + 1 > 5 /\ Len(candidates) < candidateCount
       THEN Max(1, minDifferenceThreshold - 1)
       ELSE minDifferenceThreshold
  /\ pc' = "while"
  /\ UNCHANGED <<inputs, candidates, generatedBreakPatterns, variant, result>>
  /\ UNCHANGED <<pipelineVars, managerVars, annotatorVars>>

\* Lines 589-597 (debugOutput is null).
SortAndReturn ==
  /\ pc = "sort"
  /\ result' = SortByScore(candidates)
  /\ pc' = "done"
  /\ UNCHANGED <<inputs, candidates, generatedBreakPatterns,
                 minDifferenceThreshold, attemptCount, variant>>
  /\ UNCHANGED <<pipelineVars, managerVars, annotatorVars>>

Next == Enter \/ WhileTest \/ VariantPass \/ EndAttempt \/ SortAndReturn

Spec == Init /\ [][Next]_vars

\* The control part of the actions: where each one is enabled and what it
\* does to the program counter and the variant counter.  The bodies of the
\* actions are total (every branch assigns, the seeds are never empty), so
\* a step of this kind is possible exactly where a step of Next is.
control == <<pc, variant>>

Running ==
  \/ pc = "start" /\ pc' \in {"while", "done"} /\ variant' = variant
  \/ pc = "while" /\ pc' = "variant" /\ variant' = 0
  \/ pc = "while" /\ pc' = "sort" /\ variant' = variant
  \/ /\ pc = "variant" /\ variant < VariantLimit
     /\ pc' \in {"variant", "endAttempt"} /\ variant' = variant + 1
  \/ pc = "endAttempt" /\ pc' = "while" /\ variant' = variant
  \/ pc = "sort" /\ pc' = "done" /\ variant' = variant

\* computeBreaks is one synchronous call: once entered it runs on, with no
\* other code in between, until it returns.
TerminationSpec == Init /\ [][Next]_vars /\ WF_control(Running)

\* ------------------------------------------------- the localized pipeline
\* The calls an embedding makes for one text: the tokens are annotated,
\* computeBreaks runs, its candidates pass the localized optimizer's filter
\* and the rule processor's filter; the same call is then made once more.
EnglishWords ==
  <<"The", "quick", "brown", "fox", "jumps", "over", "the", "lazy", "dog">>

FrenchWords == <<"100", "%", "dans", "son", "album">>

BrandWords == <<"Apple", "Music", "Super">>

\* A text with the function word "the" as its second token.
RankingWords == <<"jumps", "the", "quick", "brown", "fox", "lazy", "dog">>

\* The texts, with the widths and target widths they are laid out with, in
\* units of ten (the English text has the token width 50, the space width
\* 10 and the target width 150).
Scenarios ==
  {[words |-> EnglishWords, wordWidths |-> [i \in 1..9 |-> 5],
    spaceWidth |-> 1, targetWidth |-> t,
    candidateCounts |-> 1..MaxCandidates] : t \in {15, 5}}
  \cup {[words |-> FrenchWords, wordWidths |-> <<3, 1, 4, 3, 5>>,
         spaceWidth |-> 1, targetWidth |-> t,
         candidateCounts |-> 1..MaxCandidates] : t \in {4, 9}}
  \cup {[words |-> BrandWords, wordWidths |-> [i \in 1..3 |-> 5],
         spaceWidth |-> 1, targetWidth |-> t,
         candidateCounts |-> 1..MaxCandidates] : t \in {5, 11}}
  \cup {[words |-> RankingWords, wordWidths |-> <<5, 5, 5, 5, 5, 8, 8>>,
         spaceWidth |-> 1, targetWidth |-> 19,
         candidateCounts |-> {MaxCandidates + 1}]}

\* The locale arguments of the calls.
LocaleArgs == Locales \cup {NoLocale}

LocalizedInit ==
  /\ \E s \in Scenarios :
       /\ words = s.words
       /\ wordWidths = s.wordWidths
       /\ spaceWidth = s.spaceWidth
       /\ targetWidth = s.targetWidth
       /\ candidateCount \in s.candidateCounts
  /\ balanceFactor = 5
  /\ minFillRatio = 5
  /\ mode = "fit"
  /\ locale \in LocaleArgs
  /\ metrics = [i \in 1..Len(words) |-> Token(words[i], " ")]
  /\ pc = "enhance"
  /\ candidates = <<>>
  /\ generatedBreakPatterns = {}
  /\ minDifferenceThreshold = 0
  /\ attemptCount = 0
  /\ variant = 0
  /\ result = <<>>
  /\ enhanced = <<>>
  /\ localized = <<>>
  /\ filtered = <<>>
  /\ run = 1
  /\ firstResult = <<>>
  /\ configs = ruleConfigs
  /\ cache = EmptyCache
  /\ returned = Undefined
  /\ lastCall = [op |-> "none"]
  /\ passes = 0

\* enhanceWordMetricsWithLocalization for the baseline locale or no locale
\* (the other locales go on to the segmenter, which the pipeline of the
\* model replaces by the rule processor).
Enhance ==
  /\ pc = "enhance"
  /\ IF EnhanceSkipsLocale(locale)
     THEN enhanced' = metrics
     ELSE UNCHANGED enhanced
  /\ pc' = "annotate"
  /\ UNCHANGED <<inputs, candidates, generatedBreakPatterns,
                 minDifferenceThreshold, attemptCount, variant, result,
                 locale, localized, filtered, run, firstResult,
                 managerVars, metrics, passes>>

\* processWordMetrics(metrics, l) on the token objects held, config being
\* what getConfig returns.  The record of the call keeps the dispositions
\* before it and around its between-rule pass.
ProcessCallWith(l, config) ==
  /\ metrics' = processWith(metrics, config)
  /\ cache' = IF Len(metrics) = 0 THEN cache
              ELSE CacheAfterGet(configs, cache, LocaleArg(l))
  /\ lastCall' =
       [op |-> "processWordMetrics", locale |-> l,
        repeat |-> lastCall.op = "processWordMetrics",
        previous |-> Dispositions(metrics),
        previousApplied |-> AppliedRules(metrics),
        beforeBetween |-> Dispositions(contextPasses(metrics, config)),
        afterBetween |-> Dispositions(betweenPass(metrics, config))]
  /\ passes' = passes + 1

ProcessCall(l) ==
  ProcessCallWith(l, GetConfigValue(configs, cache, LocaleArg(l)))

\* processWordMetrics(metrics, locale) on the tokens of the text.
Annotate ==
  /\ pc = "annotate"
  /\ ProcessCall(locale)
  /\ pc' = "start"
  /\ UNCHANGED <<inputs, candidates, generatedBreakPatterns,
                 minDifferenceThreshold, attemptCount, variant, result,
                 locale, enhanced, localized, filtered, run, firstResult,
                 configs, returned>>

\* The localized optimizer returns (lines 138-144).
LocalizedReturn ==
  /\ pc = "done"
  /\ localized' = LocalizedResult(result, words, configs, locale)
  /\ pc' = "localized"
  /\ UNCHANGED <<inputs, candidates, generatedBreakPatterns,
                 minDifferenceThreshold, attemptCount, variant, result,
                 locale, enhanced, filtered, run, firstResult,
                 managerVars, metrics, passes>>

\* universalRuleProcessor.filterCandidates(result, words, locale)
FilterReturned ==
  /\ pc = "localized"
  /\ filtered' =
       filterCandidates(result, words, configs,
         GetConfigValue(configs, cache, LocaleArg(locale)), locale)
  /\ cache' = IF needsLocalization(configs, locale)
              THEN CacheAfterGet(configs, cache, LocaleArg(locale))
              ELSE cache
  /\ lastCall' = [op |-> "filterCandidates", locale |-> locale]
  /\ pc' = "filtered"
  /\ UNCHANGED <<inputs, candidates, generatedBreakPatterns,
                 minDifferenceThreshold, attemptCount, variant, result,
                 locale, enhanced, localized, run, firstResult,
                 configs, returned, metrics, passes>>

\* computeBreaks is called once more with the same arguments.
CallAgain ==
  /\ pc = "filtered"
  /\ run = 1
  /\ run' = 2
  /\ firstResult' = result
  /\ pc' = "start"
  /\ candidates' = <<>>
  /\ generatedBreakPatterns' = {}
  /\ minDifferenceThreshold' = 0
  /\ attemptCount' = 0
  /\ variant' = 0
  /\ result' = <<>>
  /\ UNCHANGED <<inputs, locale, enhanced, localized, filtered,
                 managerVars, metrics, passes>>

LocalizedNext ==
  \/ Enhance \/ Annotate
  \/ Enter \/ WhileTest \/ VariantPass \/ EndAttempt \/ SortAndReturn
  \/ LocalizedReturn \/ FilterReturned \/ CallAgain

LocalizedSpec == LocalizedInit /\ [][LocalizedNext]_vars

\* ----------------------------------------------------- the annotator alone
\* Calls of the two annotators on one token array, for every short array
\* over the texts of the model.
TokenChoices == {Token(t, " ") : t \in TokenTexts} \cup {Token("Super", "-")}

TokenArrays == UNION {[1..k -> TokenChoices] : k \in 0..MaxMetrics}

\* No text is being laid out.
NoLayout ==
  /\ words = <<>>
  /\ wordWidths = <<>>
  /\ spaceWidth = 1
  /\ targetWidth = 10
  /\ candidateCount = 1
  /\ balanceFactor = 5
  /\ minFillRatio = 5
  /\ mode = "fit"
  /\ candidates = <<>>
  /\ generatedBreakPatterns = {}
  /\ minDifferenceThreshold = 0
  /\ attemptCount = 0
  /\ variant = 0
  /\ result = <<>>
  /\ enhanced = <<>>
  /\ localized = <<>>
  /\ run = 1
  /\ firstResult = <<>>

AnnotatorInit ==
  /\ NoLayout
  /\ pc = "annotator"
  /\ locale \in LocaleArgs
  /\ metrics \in TokenArrays
  /\ filtered = <<>>
  /\ configs = ruleConfigs
  /\ cache = EmptyCache
  /\ returned = Undefined
  /\ lastCall = [op |-> "none"]
  /\ passes = 0

\* universalRuleProcessor.processWordMetrics(metrics, locale)
ProcessWordMetrics ==
  /\ pc = "annotator"
  /\ passes < MaxPasses
  /\ ProcessCall(locale)
  /\ UNCHANGED <<inputs, pc, candidates, generatedBreakPatterns,
                 minDifferenceThreshold, attemptCount, variant, result,
                 pipelineVars, configs, returned>>

\* annotateLineBreakingWithSeparators(metrics, ruleEngine[locale] || {}),
\* the array returned taking the place of the one passed.
AnnotateSeparators ==
  /\ pc = "annotator"
  /\ passes < MaxPasses
  /\ metrics' = annotateLineBreakingWithSeparators(
                  metrics, getLineBreakingRules(configs, locale))
  /\ lastCall' = [op |-> "annotateLineBreakingWithSeparators",
                  locale |-> locale,
                  repeat |-> lastCall.op = "annotateLineBreakingWithSeparators",
                  previous |-> Dispositions(metrics),
                  previousApplied |-> AppliedRules(metrics)]
  /\ passes' = passes + 1
  /\ UNCHANGED <<inputs, pc, candidates, generatedBreakPatterns,
                 minDifferenceThreshold, attemptCount, variant, result,
                 pipelineVars, configs, cache, returned>>

AnnotatorNext == ProcessWordMetrics \/ AnnotateSeparators

AnnotatorSpec == AnnotatorInit /\ [][AnnotatorNext]_vars

\* One candidate for every break index of the tokens.
BreakCandidates(count) == [b \in 1..count |-> [breaks |-> <<b - 1>>]]

\* ------------------------------------------------ hyphen-like characters
\* The annotators and the candidate filters on three tokens of which the
\* first two end, in their text or their separator, with a hyphen-like
\* character or with none.
HyphenTokens ==
  {Token(t, " ") : t \in HyphenTexts \cup {"Super"}}
    \cup {Token("Super", h) : h \in hyphenChars}

HyphenArrays ==
  {<<first, second, Token("Music", " ")>> : first, second \in HyphenTokens}

HyphenInit ==
  /\ NoLayout
  /\ pc = "annotator"
  /\ locale \in LocaleArgs
  /\ metrics \in HyphenArrays
  /\ filtered = <<>>
  /\ configs = ruleConfigs
  /\ cache = EmptyCache
  /\ returned = Undefined
  /\ lastCall = [op |-> "none"]
  /\ passes = 0

\* universalRuleProcessor.filterCandidates(candidates, words, locale), the
\* candidates having one break each and the words being the token texts.
FilterTexts ==
  /\ pc = "annotator"
  /\ filtered' =
       filterCandidates(BreakCandidates(Len(metrics)), Texts(metrics), configs,
         GetConfigValue(configs, cache, LocaleArg(locale)), locale)
  /\ cache' = IF needsLocalization(configs, locale)
              THEN CacheAfterGet(configs, cache, LocaleArg(locale))
              ELSE cache
  /\ lastCall' = [op |-> "filterCandidates", locale |-> locale]
  /\ UNCHANGED <<inputs, pc, candidates, generatedBreakPatterns,
                 minDifferenceThreshold, attemptCount, variant, result,
                 locale, enhanced, localized, run, firstResult,
                 configs, returned, annotatorVars>>

\* filterCandidatesByLocalizationRules(candidates, words, locale)
FilterTextsLocalized ==
  /\ pc = "annotator"
  /\ filtered' =
       filterCandidatesByLocalizationRules(BreakCandidates(Len(metrics)),
         Texts(metrics), configs, locale)
  /\ lastCall' = [op |-> "filterCandidatesByLocalizationRules",
                  locale |-> locale]
  /\ UNCHANGED <<inputs, pc, candidates, generatedBreakPatterns,
                 minDifferenceThreshold, attemptCount, variant, result,
                 locale, enhanced, localized, run, firstResult,
                 configs, cache, returned, annotatorVars>>

HyphenNext ==
  \/ ProcessWordMetrics
  \/ AnnotateSeparators
  \/ FilterTexts
  \/ FilterTextsLocalized

HyphenSpec == HyphenInit /\ [][HyphenNext]_vars

\* --------------------------------------------- break patterns compared
\* breakPatternDifference on its own.  It is called with the results of
\* findBreakIndices only, which are strictly increasing index lists.
Increasing(indices) ==
  CHOOSE f \in [1..Cardinality(indices) -> indices] :
    \A i \in 1..(Cardinality(indices) - 1) : f[i] < f[i + 1]

BreakPatternInputs == {Increasing(indices) : indices \in SUBSET (0..MaxBreak)}

PatternInit ==
  /\ NoLayout
  /\ pc = "patterns"
  /\ locale = DEFAULT_LOCALE
  /\ metrics = <<>>
  /\ filtered = <<>>
  /\ configs = ruleConfigs
  /\ cache = EmptyCache
  /\ returned = Undefined
  /\ lastCall = [op |-> "none"]
  /\ passes = 0

\* breakPatternDifference(pattern1, pattern2) and the call with the
\* arguments exchanged.
Difference ==
  /\ pc = "patterns"
  /\ \E pattern1, pattern2 \in BreakPatternInputs :
       lastCall' = [op |-> "breakPatternDifference",
                    pattern1 |-> pattern1, pattern2 |-> pattern2,
                    difference |-> breakPatternDifference(pattern1, pattern2),
                    exchanged |-> breakPatternDifference(pattern2, pattern1)]
  /\ UNCHANGED <<inputs, pc, candidates, generatedBreakPatterns,
                 minDifferenceThreshold, attemptCount, variant, result,
                 pipelineVars, configs, cache, returned, annotatorVars>>

PatternNext == Difference

PatternSpec == PatternInit /\ [][PatternNext]_vars

\* ------------------------------------------- the configuration manager
\* Calls on the singleton localeConfigManager, in any order, mixed with
\* calls of the rule processor, which reads its configurations from it.
\* A configuration a caller registers: one protected phrase.
brandRules ==
  [rules |-> [avoidBreakBetween |-> <<"appleServices">>],
   appleServices |-> << <<"Apple", "Music">> >>]

\* registerLocale is called for the baseline locale and the unknown one.
RegisteredLocales == {"en", "xx"}

\* The token arrays the rule processor is called on here.
ManagerTokens ==
  {<<Token("Apple", " "), Token("Music", " "), Token("Super", " ")>>,
   <<Token("100", " "), Token("%", " ")>>}

ManagerInit ==
  /\ NoLayout
  /\ pc = "manager"
  /\ locale = DEFAULT_LOCALE
  /\ metrics \in ManagerTokens
  /\ filtered = <<>>
  /\ configs = ruleConfigs
  /\ cache = EmptyCache
  /\ returned = Undefined
  /\ lastCall = [op |-> "none"]
  /\ passes = 0

layoutVars ==
  <<inputs, pc, candidates, generatedBreakPatterns, minDifferenceThreshold,
    attemptCount, variant, result, locale, enhanced, localized, run,
    firstResult>>

\* localeConfigManager.getConfig(l)
GetConfig(l) ==
  /\ pc = "manager"
  /\ returned' = GetConfigValue(configs, cache, LocaleArg(l))
  /\ cache' = CacheAfterGet(configs, cache, LocaleArg(l))
  /\ lastCall' = [op |-> "getConfig", locale |-> l,
                  hit |-> cache[LocaleArg(l)] /= Undefined]
  /\ UNCHANGED <<layoutVars, filtered, configs, metrics, passes>>

\* localeConfigManager.clearCache() (lines 330-332)
ClearCache ==
  /\ pc = "manager"
  /\ cache' = EmptyCache
  /\ lastCall' = [op |-> "clearCache"]
  /\ UNCHANGED <<layoutVars, filtered, configs, returned, metrics, passes>>

\* localeConfigManager.registerLocale(l, config) (lines 339-342)
RegisterLocale(l, config) ==
  /\ pc = "manager"
  /\ configs' = [configs EXCEPT ![l] = config]
  /\ cache' = [cache EXCEPT ![l] = Undefined]
  /\ lastCall' = [op |-> "registerLocale", locale |-> l]
  /\ UNCHANGED <<layoutVars, filtered, returned, metrics, passes>>

\* universalRuleProcessor.processWordMetrics(metrics, l)
ManagerProcess(l) ==
  /\ pc = "manager"
  /\ passes < MaxPasses
  /\ ProcessCall(l)
  /\ UNCHANGED <<layoutVars, filtered, configs, returned>>

\* universalRuleProcessor.filterCandidates(candidates, words, l), the
\* words being the texts of the tokens.
ManagerFilter(l) ==
  /\ pc = "manager"
  /\ filtered' =
       filterCandidates(BreakCandidates(Len(metrics)), Texts(metrics), configs,
         GetConfigValue(configs, cache, LocaleArg(l)), l)
  /\ cache' = IF needsLocalization(configs, l)
              THEN CacheAfterGet(configs, cache, LocaleArg(l))
              ELSE cache
  /\ lastCall' = [op |-> "filterCandidates", locale |-> l]
  /\ UNCHANGED <<layoutVars, configs, returned, metrics, passes>>

ManagerNext ==
  \/ \E l \in LocaleArgs : GetConfig(l)
  \/ ClearCache
  \/ \E l \in RegisteredLocales : RegisterLocale(l, brandRules)
  \/ \E l \in LocaleArgs : ManagerProcess(l)
  \/ \E l \in LocaleArgs : ManagerFilter(l)

ManagerSpec == ManagerInit /\ [][ManagerNext]_vars


\* ------------------------------------------------------------- properties
Returned == SeqToSet(result)

ValidInput == ~InvalidInput

RECURSIVE Concat(_)
Concat(lines) ==
  IF lines = <<>> THEN <<>>
  ELSE Concat(SubSeq(lines, 1, Len(lines) - 1)) \o lines[Len(lines)]

\* Index (0-based) of the last token of line k.
LastTokenOfLine(lines, k) == Len(Concat(SubSeq(lines, 1, k))) - 1

\* C1: every returned candidate is a partition of the input: it has one line
\* more than it has breaks, no line is empty, line k ends at token breaks[k],
\* and the lines joined in order are the input tokens.
C1_PartitionComplete ==
  \A c \in Returned :
    /\ Len(c.lines) = Len(c.breaks) + 1
    /\ \A l \in 1..Len(c.lines) : Len(c.lines[l]) > 0
    /\ \A k \in 1..Len(c.breaks) : LastTokenOfLine(c.lines, k) = c.breaks[k]
    /\ Concat(c.lines) = words

\* Two candidates are returned and one of them has several lines.
C1_Witness ==
  /\ pc = "done"
  /\ Len(result) >= 2
  /\ \E c \in Returned : Len(c.lines) >= 3

\* C2: the breaks of every returned candidate are strictly increasing and
\* lie in 0..n-1.
C2_BreaksIncreasing ==
  \A c \in Returned :
    /\ \A k \in 1..Len(c.breaks) : c.breaks[k] >= 0 /\ c.breaks[k] <= n - 1
    /\ \A k \in 1..(Len(c.breaks) - 1) : c.breaks[k] < c.breaks[k + 1]

\* A returned candidate has two breaks.
C2_Witness ==
  /\ pc = "done"
  /\ \E c \in Returned : Len(c.breaks) >= 2

\* Position of a returned candidate in the order of discovery.
Discovered(c) == CHOOSE k \in 1..Len(candidates) : candidates[k] = c

C4_CandidateCount ==
  pc = "done" /\ ValidInput =>
    Len(result) >= 1 /\ Len(result) <= candidateCount

\* All attempts were used and fewer candidates than asked for are returned.
C4_Witness ==
  /\ pc = "done"
  /\ ValidInput
  /\ targetWidth > 0
  /\ Len(words) >= 2
  /\ attemptCount = MaxAttempts
  /\ Len(result) < candidateCount

\* C5: an empty token list, or token and width lists of different lengths,
\* give the empty list.
C5_InvalidInputEmpty ==
  pc = "done" /\ (Len(words) = 0 \/ Len(words) /= Len(wordWidths)) =>
    result = <<>>

\* A non-empty token list with a longer width list was rejected.
C5_Witness ==
  /\ pc = "done"
  /\ Len(words) > 0
  /\ Len(wordWidths) > Len(words)
  /\ result = <<>>

\* C6: a single token gives exactly one candidate, without breaks, whose
\* only line is that token.
C6_SingleToken ==
  pc = "done" /\ Len(words) = 1 /\ Len(wordWidths) = 1 =>
    /\ Len(result) = 1
    /\ result[1].breaks = <<>>
    /\ result[1].lines = <<words>>

\* A single token was laid out although two candidates were asked for.
C6_Witness ==
  /\ pc = "done"
  /\ Len(words) = 1
  /\ Len(wordWidths) = 1
  /\ candidateCount = 2
  /\ targetWidth > 0
  /\ Len(result) = 1

\* C7: with a target width that is not positive the result is the empty
\* list, or a default of score zero.
C7_NonPositiveTarget ==
  pc = "done" /\ targetWidth <= 0 =>
    \/ result = <<>>
    \/ \A c \in Returned : c.score = 0

\* C8: the stored score of every returned candidate is the score the Scorer
\* computes from the candidate's lines and line widths (up to one
\* milli-unit of rounding).
C8_ScoreIsScorer ==
  \A c \in Returned :
    Abs(c.score - calculateScoreBreakdown(c.lines, c.lineWidths, targetWidth,
                                          balanceFactor).score)
      <= 1

\* The difference threshold changed in this step.
ThresholdChanged == minDifferenceThreshold' /= minDifferenceThreshold

\* A candidate was added to the list in this step of the search.
Accepted == pc = "variant" /\ Len(candidates') = Len(candidates) + 1

\* C9: the difference threshold starts at 8 for more than 20 tokens, 5 for
\* more than 10 and 3 otherwise; afterwards it only ever goes down, by one
\* at a time, only after an attempt beyond the fifth that left fewer
\* candidates than asked for, and never below 1; a layout is accepted only
\* if it differs by at least the threshold from every candidate held; so the
\* candidates held and returned differ pairwise by at least the threshold.
C9_DiversityThreshold ==
  /\ [](\A a \in 1..Len(candidates) : \A b \in 1..Len(candidates) :
          a /= b =>
            breakPatternDifference(candidates[a].breaks, candidates[b].breaks)
              >= minDifferenceThreshold)
  /\ [](pc = "done" =>
          \A c \in Returned : \A d \in Returned :
            c /= d =>
              breakPatternDifference(c.breaks, d.breaks)
                >= minDifferenceThreshold)
  /\ [][/\ pc = "start" /\ pc' = "while" =>
             minDifferenceThreshold' =
               IF n > 20 THEN 8 ELSE IF n > 10 THEN 5 ELSE 3
        /\ pc /= "start" /\ ThresholdChanged =>
             /\ minDifferenceThreshold' = minDifferenceThreshold - 1
             /\ minDifferenceThreshold' >= 1
             /\ pc = "endAttempt"
             /\ attemptCount' > 5
             /\ Len(candidates) < candidateCount
        /\ Accepted =>
             \A k \in 1..Len(candidates) :
               breakPatternDifference(candidates'[Len(candidates')].breaks,
                                      candidates[k].breaks)
                 >= minDifferenceThreshold]_vars

\* Two layouts are returned that differ by less than the starting threshold:
\* the second was accepted only after the threshold had been lowered.
C9_Witness ==
  /\ pc = "done"
  /\ Len(result) >= 2
  /\ minDifferenceThreshold < (IF n > 20 THEN 8 ELSE IF n > 10 THEN 5 ELSE 3)
  /\ breakPatternDifference(result[1].breaks, result[2].breaks)
       < (IF n > 20 THEN 8 ELSE IF n > 10 THEN 5 ELSE 3)

\* C10: no line of a returned candidate is wider than
\* targetWidth * (1 + balanceFactor).
C10_WidthBound ==
  \A c \in Returned :
    \A l \in 1..Len(c.lineWidths) :
      10 * c.lineWidths[l] <= targetWidth * (10 + balanceFactor)

\* ------------------------------------- properties of the localized pipeline
\* The candidate has a line break right after the token at the 0-based
\* position idx.
BreaksAfter(c, idx) == \E b \in 1..Len(c.breaks) : c.breaks[b] = idx

\* The localized optimizer has returned.
LocalizedDone == pc \in {"localized", "filtered"}

\* C11: in the scenarios the optimizer never breaks on an Avoid boundary:
\* under the French rules no candidate the localized optimizer returns
\* breaks between "100" and "%", and for the English sentence no line of a
\* returned candidate ends on "the".
C11_NoBreakOnAvoid ==
  LocalizedDone =>
    /\ (words = FrenchWords /\ locale = "fr")
          => \A k \in 1..Len(localized) : ~BreaksAfter(localized[k], 0)
    /\ (words = EnglishWords /\ targetWidth = 15)
          => \A k \in 1..Len(localized) : ~BreaksAfter(localized[k], 6)

\* The break indices of a candidate whose token the annotator left with
\* the disposition Avoid.
AvoidBreaks(c) ==
  {b \in 1..Len(c.breaks) : metrics[c.breaks[b] + 1].lineBreaking = "avoid"}

\* computeBreaks has returned for the annotated tokens.
ComputeBreaksDone == pc \in {"done", "localized", "filtered"}

\* C12: the protected-break count of a candidate's scoreBreakdown is the
\* number of its break indices whose token the locale annotator marked
\* Avoid: zero when no token is marked, nonzero for a break between
\* "Apple" and "Music" under a locale protecting "Apple Music".
C12_ProtectedBreakCount ==
  ComputeBreaksDone =>
    \A k \in 1..Len(result) :
      result[k].scoreBreakdown.protectedBreaks
        = Cardinality(AvoidBreaks(result[k]))

\* Two score breakdowns agree in every component but the protected-break
\* count (and the final score, which sums the components).
SameButProtected(a, b) ==
  /\ a.raggedness = b.raggedness
  /\ a.evenness = b.evenness
  /\ a.fillRatio = b.fillRatio
  /\ a.widows = b.widows
  /\ a.orphans = b.orphans
  /\ a.balanceFactor = b.balanceFactor

\* C13: of two candidates of one result that agree in every score
\* component except that one has a nonzero protected-break count, the one
\* with the protected break is ranked after the other.
C13_ProtectedRankedLater ==
  ComputeBreaksDone =>
    \A i \in 1..Len(result) : \A j \in 1..Len(result) :
      (/\ i < j
       /\ SameButProtected(result[i].scoreBreakdown, result[j].scoreBreakdown)
       /\ result[j].scoreBreakdown.protectedBreaks = 0)
        => result[i].scoreBreakdown.protectedBreaks = 0

\* ------------------------------------------- properties of the annotator
\* processWordMetrics was the last call and had tokens to work on.
Processed == lastCall.op = "processWordMetrics" /\ Len(metrics) > 0

\* The configuration getConfig returned to the last call.
ConfigUsed == cache[LocaleArg(lastCall.locale)]

\* Token i is a number and the token after it a unit of measure or a
\* percent symbol of the configuration, whatever its case.
NumberBeforeUnit(config, i) ==
  /\ i < Len(metrics)
  /\ MatchesNumeric(metrics[i].text)
  /\ \E e \in config.unitsOfMeasure \cup config.percentSymbols :
       ToLower(metrics[i + 1].text) = ToLower(e)

\* C14: with the after-rule "numeric" the annotator marks token i Avoid
\* for every i before the last where token i is purely numeric and token
\* i + 1 is a unit of measure or a percent symbol (case-insensitively);
\* under the French rules "100" followed by "%" is marked Avoid.
C14_NumericAfterRule ==
  Processed =>
    /\ Includes(ConfigUsed.rules.avoidBreakAfter, "numeric")
         => \A i \in 1..Len(metrics) :
              NumberBeforeUnit(ConfigUsed, i) => metrics[i].lineBreaking = "avoid"
    /\ lastCall.locale = "fr"
         => \A i \in 1..(Len(metrics) - 1) :
              (metrics[i].text = "100" /\ metrics[i + 1].text = "%")
                => metrics[i].lineBreaking = "avoid"

\* The French rules were applied to fresh tokens with "100" before "%",
\* and the call changed the disposition of "100" to Avoid.
C14_Witness ==
  /\ Processed
  /\ lastCall.locale = "fr"
  /\ \E i \in 1..(Len(metrics) - 1) :
       /\ metrics[i].text = "100"
       /\ metrics[i + 1].text = "%"
       /\ lastCall.previous[i] = "allow"
       /\ metrics[i].lineBreaking = "avoid"

\* The protected phrases of a configuration: the entries of the phrase
\* lists its between-rules name.
ProtectedPhrases(config) ==
  UNION {SeqToSet(getPhraseList(config, rule)) :
           rule \in {r \in SeqToSet(ContextRules(config, "between")) :
                       r \in {"appleServices", "appGameNames",
                                "fixedExpressions"}}}

\* The matches of the protected phrases on the tokens: the first token
\* (1-based) and the number of tokens of each.
PhraseMatches(config) ==
  UNION {{[first |-> s + 1, count |-> Len(p)] : s \in MatchStarts(metrics, p)} :
           p \in {q \in ProtectedPhrases(config) : Len(q) >= 2}}

\* C15: for a protected phrase on the tokens [j, j+k) the between-rule
\* pass marks Avoid exactly the tokens j..j+k-2; by itself it does not mark
\* token j+k-1 (the boundary after "Music" in "Apple Music Super" stays
\* Allow unless another rule marks it).
C15_PhraseInteriorOnly ==
  Processed =>
    \A m \in PhraseMatches(ConfigUsed) :
      /\ \A t \in m.first..(m.first + m.count - 2) :
           lastCall.afterBetween[t] = "avoid"
      /\ LET last == m.first + m.count - 1
         IN (/\ lastCall.beforeBetween[last] = "allow"
             /\ \A o \in PhraseMatches(ConfigUsed) :
                  ~(o.first <= last /\ last <= o.first + o.count - 2))
              => lastCall.afterBetween[last] = "allow"


\* The configuration the last getConfig call was answered with is the one
\* the registry gives for its locale at the time of the call.
GetConfigCalled == pc = "manager" /\ lastCall.op = "getConfig"

Unregistered(l) == configs[LocaleArg(l)] = Undefined

FallbackOrDefault(l) ==
  IF LocaleArg(l) /= FALLBACK_LOCALE /\ configs[FALLBACK_LOCALE] /= Undefined
  THEN normalizeConfig(configs[FALLBACK_LOCALE], LocaleArg(l))
  ELSE createDefaultConfig(LocaleArg(l))

\* C16: getConfig for a locale with no registered configuration returns the
\* fallback locale's configuration if one is registered and otherwise the
\* empty-rule default, after any sequence of getConfig, clearCache and
\* registerLocale calls.
C16_FallbackAfterAnyCalls ==
  (GetConfigCalled /\ Unregistered(lastCall.locale))
    => returned = FallbackOrDefault(lastCall.locale)


BaselineCall == pc /= "manager" /\ pc /= "annotator" /\ EnhanceSkipsLocale(locale)

\* The tokens the pipeline is called with, before any annotation.
InputMetrics == [i \in 1..Len(words) |-> Token(words[i], " ")]

\* C17: with the baseline locale 'en' or no locale, no token is marked
\* Avoid: needsLocalization('en') is false, the enhancement returns its
\* input, processWordMetrics marks nothing, and the localized optimizer and
\* filterCandidates return the candidates of the optimizer unfiltered.
C17_BaselineMarksNothing ==
  BaselineCall =>
    /\ ~needsLocalization(configs, "en")
    /\ pc /= "enhance" => enhanced = InputMetrics
    /\ \A i \in 1..Len(metrics) : metrics[i].lineBreaking /= "avoid"
    /\ lastCall.op = "processWordMetrics" =>
         /\ Dispositions(metrics) = lastCall.previous
         /\ lastCall.afterBetween = lastCall.previous
    /\ pc \in {"localized", "filtered"} => localized = result
    /\ pc = "filtered" => filtered = result

C17_Witness ==
  /\ BaselineCall
  /\ locale = "en"
  /\ pc = "filtered"
  /\ passes > 0
  /\ Len(result) > 1
  /\ enhanced = InputMetrics
  /\ filtered = result


\* The step is a call that may drop the cache entry of locale l.
DropsEntry(l) ==
  \/ lastCall'.op = "clearCache"
  \/ lastCall'.op = "registerLocale" /\ lastCall'.locale = l

\* The step is an annotation or a filtering call.
AnnotationOrFiltering ==
  lastCall'.op \in {"processWordMetrics", "filterCandidates"}

\* A step keeps what the cache holds and answers getConfig from it.
CachedConfigStep ==
  /\ lastCall'.op = "getConfig" =>
       LET l == LocaleArg(lastCall'.locale)
       IN /\ cache'[l] = returned'
          /\ cache[l] /= Undefined => returned' = cache[l]
  /\ \A l \in Locales :
       (cache[l] /= Undefined /\ ~DropsEntry(l)) => cache'[l] = cache[l]
  /\ AnnotationOrFiltering => configs' = configs

\* C18: once getConfig(l) has returned a configuration, every later
\* getConfig(l) with no clearCache or registerLocale(l) in between returns
\* that cached configuration, and no annotation or filtering call changes
\* a cached configuration or the registered rule configurations.
C18_CachedConfigKept == [][CachedConfigStep]_vars

\* A repeated getConfig is answered from the cache, after annotation and
\* filtering calls, with a configuration the registry no longer gives.
C18_Witness ==
  /\ GetConfigCalled
  /\ lastCall.hit
  /\ passes > 0
  /\ filtered /= <<>>
  /\ returned = cache[LocaleArg(lastCall.locale)]
  /\ returned /= GetConfigValueUncached(configs, cache, LocaleArg(lastCall.locale))


\* An annotator has been called on the tokens its previous call left.
CalledTwice ==
  /\ pc = "annotator"
  /\ lastCall.op \in {"processWordMetrics", "annotateLineBreakingWithSeparators"}
  /\ lastCall.repeat

\* The second call leaves every token's disposition as the first left it.
SameDispositions == CalledTwice => Dispositions(metrics) = lastCall.previous

\* The second call leaves the _appliedRules lists as the first left them.
NothingCarried == CalledTwice => AppliedRules(metrics) = lastCall.previousApplied

\* C19: calling an annotator twice on the same tokens and configuration
\* yields identical dispositions for every token, and nothing hidden on
\* the tokens is carried from the first call into the second.
C19_SecondCallSameTokens == SameDispositions /\ NothingCarried


\* computeBreaks has returned from its second call on the same arguments.
SecondRunDone == run = 2 /\ pc \in {"done", "localized", "filtered"}

BreakPatterns(cands) == [c \in 1..Len(cands) |-> cands[c].breaks]

\* C20: two runs of computeBreaks on identical inputs return identical
\* candidate lists, the same break patterns in the same order.
C20_SameInputsSameCandidates ==
  SecondRunDone => BreakPatterns(result) = BreakPatterns(firstResult)


\* Every predecessor index reconstructSolution follows from a position
\* j > 0 is a smaller position.
Descends(breaks) == \A j \in 1..n : breaks[j] \in 0..(j - 1)

\* The search loop is within its limits, a pass is only started while
\* candidates are missing, and the predecessor arrays descend.
SearchBounded ==
  /\ attemptCount \in 0..MaxAttempts
  /\ variant \in 0..VariantLimit
  /\ VariantLimit <= 20 /\ VariantLimit <= 2 * candidateCount
  /\ pc = "variant" =>
       /\ attemptCount < MaxAttempts
       /\ Len(candidates) < candidateCount
       /\ \A seed \in 0..MaxSeed : Descends(AltDP(variant, seed).breaks)
  /\ pc = "while" => Descends(MainDP.breaks)

\* C21: computeBreaks terminates on every input: at most 10 calls of
\* findAlternatives, each of at most min(20, 2 * candidateCount) passes,
\* no pass once candidateCount candidates are held, and predecessor
\* indices that are strictly smaller than the position they are read at.
C21_Terminates == []SearchBounded /\ <>(pc = "done")

\* The search used all its attempts without finding enough candidates.
C21_Witness ==
  /\ pc = "done"
  /\ n > 1
  /\ attemptCount = MaxAttempts
  /\ Len(result) >= 1
  /\ Len(result) < candidateCount
  /\ Descends(MainDP.breaks)


\* A partition of the tokens into lines is the set of the positions
\* 1..n-1 it cuts at.  The width of the line of tokens from + 1 .. to:
SpanWidth(from, to) ==
  SumSeq([k \in 1..(to - from) |-> wordWidths[from + k]])
    + spaceWidth * (to - from - 1)

\* The end of the line that starts after position from.
NextCut(cuts, from) ==
  CHOOSE b \in cuts \cup {n} :
    b > from /\ \A c \in cuts \cup {n} : c > from => b <= c

\* No line from position from on is wider than 1.5 * targetWidth.
RECURSIVE WithinLimit(_, _)
WithinLimit(cuts, from) ==
  \/ from >= n
  \/ /\ ~ExceedsTarget(SpanWidth(from, NextCut(cuts, from)))
     /\ WithinLimit(cuts, NextCut(cuts, from))

\* The sum of the penalties of the lines from position from on.
RECURSIVE PenaltySum(_, _)
PenaltySum(cuts, from) ==
  IF from >= n THEN 0
  ELSE LinePenalty(SpanWidth(from, NextCut(cuts, from)))
       + PenaltySum(cuts, NextCut(cuts, from))

WidePartitions == {cuts \in SUBSET (1..(n - 1)) : WithinLimit(cuts, 0)}

PartitionSums == {PenaltySum(cuts, 0) : cuts \in WidePartitions}

\* The unperturbed DP has just run on a text short enough to enumerate.
AfterMainDP ==
  /\ pc = "while"
  /\ attemptCount = 0
  /\ Len(candidates) = 1
  /\ n <= MaxPartitioned

\* C22: when a partition into lines of width at most 1.5 * targetWidth
\* exists, penalties[n] of the unperturbed DP is the minimum over all such
\* partitions of the sum of the line penalties, and the partition
\* reconstructSolution rebuilds attains that sum.
C22_OptimalPartition ==
  (AfterMainDP /\ WidePartitions /= {}) =>
    LET best == candidates[1]
    IN /\ best.score \in PartitionSums
       /\ \A sum \in PartitionSums : best.score <= sum
       /\ \A l \in 1..Len(best.lineWidths) : ~ExceedsTarget(best.lineWidths[l])
       /\ best.score =
            SumSeq([l \in 1..Len(best.lineWidths) |->
                      LinePenalty(best.lineWidths[l])])

\* The optimum has several lines and beats another partition.
C22_Witness ==
  /\ AfterMainDP
  /\ n >= 3
  /\ Len(candidates[1].lines) >= 2
  /\ candidates[1].score \in PartitionSums
  /\ \E sum \in PartitionSums : candidates[1].score < sum


Compared == pc = "patterns" /\ lastCall.op = "breakPatternDifference"

\* The break indices in exactly one of two patterns.
InOneOnly(a, b) == (SeqToSet(a) \ SeqToSet(b)) \cup (SeqToSet(b) \ SeqToSet(a))

\* C23: breakPatternDifference(a, b) is the number of break indices in
\* exactly one of a and b plus twice the difference of their lengths; it
\* is symmetric, never negative, and 0 exactly when a and b hold the same
\* break indices.
C23_DifferenceAlgebra ==
  Compared =>
    LET a == lastCall.pattern1
        b == lastCall.pattern2
    IN /\ lastCall.difference =
            Cardinality(InOneOnly(a, b)) + 2 * Abs(Len(a) - Len(b))
       /\ lastCall.difference = lastCall.exchanged
       /\ lastCall.difference >= 0
       /\ lastCall.difference = 0 <=> SeqToSet(a) = SeqToSet(b)

\* Patterns of different lengths, each with a break the other lacks.
C23_Witness ==
  /\ Compared
  /\ Len(lastCall.pattern1) > Len(lastCall.pattern2)
  /\ SeqToSet(lastCall.pattern2) \ SeqToSet(lastCall.pattern1) /= {}
  /\ SeqToSet(lastCall.pattern1) \cap SeqToSet(lastCall.pattern2) /= {}
  /\ lastCall.difference = lastCall.exchanged
  /\ lastCall.difference > 2


\* The tokens as they are before any call, and the same tokens with every
\* hyphen-like character replaced by the ordinary hyphen.
Fresh(tokens) ==
  [i \in 1..Len(tokens) |-> Token(tokens[i].text, tokens[i].separator)]

OrdinaryText(w) == IF EndsWithHyphenChar(w) THEN "well-" ELSE w

Ordinary(tokens) ==
  [i \in 1..Len(tokens) |->
     Token(OrdinaryText(tokens[i].text),
           IF tokens[i].separator \in hyphenChars THEN "-"
           ELSE tokens[i].separator)]

KeptBreaks(cands) == [c \in 1..Len(cands) |-> cands[c].breaks]

\* C24: every rule check that tests for a hyphen treats the ordinary
\* hyphen, the non-breaking hyphen, the en dash and the em dash alike: the
\* annotators mark, and the candidate filters reject, as they do for the
\* same tokens written with ordinary hyphens.
C24_HyphenLikeAlike ==
  LET first == passes = 1 /\ Len(metrics) > 0
      usual == Ordinary(Fresh(metrics))
  IN /\ (first /\ lastCall.op = "processWordMetrics") =>
          Dispositions(metrics) = Dispositions(processWith(usual, ConfigUsed))
     /\ (first /\ lastCall.op = "annotateLineBreakingWithSeparators") =>
          Dispositions(metrics) =
            Dispositions(annotateLineBreakingWithSeparators(
                           usual, getLineBreakingRules(configs, locale)))
     /\ lastCall.op = "filterCandidates" =>
          KeptBreaks(filtered) =
            KeptBreaks(filterCandidates(BreakCandidates(Len(metrics)),
                         Texts(usual), configs,
                         GetConfigValue(configs, cache, LocaleArg(locale)),
                         locale))
     /\ lastCall.op = "filterCandidatesByLocalizationRules" =>
          KeptBreaks(filtered) =
            KeptBreaks(filterCandidatesByLocalizationRules(
                         BreakCandidates(Len(metrics)), Texts(usual),
                         configs, locale))

\* ------------------------------------------ annotation with pattern entries
\* A configuration registered for the locale "xx" whose only rule is the
\* between-rule "fixedExpressions"; ruleEngine[locale] is the same object.
ExpressionConfig(entries) ==
  [locale |-> "xx",
   rules |-> [avoidBreakBetween |-> <<"fixedExpressions">>],
   fixedExpressions |-> entries]

ExpressionLists ==
  UNION {[1..k -> ExpressionPatterns] : k \in 1..MaxExpressions}

ExpressionTexts == {"Opus", "100", "Apple", "Music"}

ExpressionArrays ==
  UNION {[1..k -> {Token(text, " ") : text \in ExpressionTexts}] :
           k \in 1..MaxMetrics}

ExpressionInit ==
  /\ NoLayout
  /\ pc = "expressions"
  /\ locale = "xx"
  /\ metrics \in ExpressionArrays
  /\ filtered = <<>>
  /\ \E entries \in ExpressionLists :
       configs = [ruleConfigs EXCEPT !["xx"] = ExpressionConfig(entries)]
  /\ cache = EmptyCache
  /\ returned = Undefined
  /\ lastCall = [op |-> "none"]
  /\ passes = 0

\* The variables no call on the expressions changes.
expressionFrame ==
  <<inputs, candidates, generatedBreakPatterns, minDifferenceThreshold,
    attemptCount, variant, result, locale, enhanced, localized, run,
    firstResult, configs, returned>>

\* The fixedExpressions of the configuration getConfig returns.
Expressions == GetConfigValue(configs, cache, locale).fixedExpressions

\* processWordMetrics (lines 24-39) up to applyFixedExpressionRules (line
\* 155): the configuration has no before-rule and no after-rule.
BeginProcess ==
  /\ pc = "expressions"
  /\ passes < MaxPasses
  /\ pc' = "entry"
  /\ cache' = CacheAfterGet(configs, cache, locale)
  /\ lastCall' = [op |-> "processWordMetrics", locale |-> locale,
                  entry |-> 1, lastIndex |-> 0, iterations |-> 0]
  /\ UNCHANGED <<expressionFrame, metrics, filtered, passes>>

\* One turn of the loop of applyFixedExpressionRules (lines 157-170): a
\* plain entry is marked, an entry with a backslash is compiled (line 316;
\* line 325 catches the error of one that does not compile), and after the
\* last entry processWordMetrics returns (the configuration has no special
\* case).
NextExpression ==
  /\ pc = "entry"
  /\ IF lastCall.entry > Len(Expressions)
     THEN /\ pc' = "expressions"
          /\ passes' = passes + 1
          /\ UNCHANGED <<metrics, lastCall>>
     ELSE LET expression == Expressions[lastCall.entry]
          IN /\ IF IncludesBackslash(expression)
                THEN /\ UNCHANGED metrics
                     /\ IF Compiles(expression)
                        THEN /\ pc' = "exec"
                             /\ lastCall' = [lastCall EXCEPT !.lastIndex = 0,
                                                             !.iterations = 0]
                        ELSE /\ pc' = "entry"
                             /\ lastCall' = [lastCall EXCEPT !.entry = @ + 1]
                ELSE /\ metrics' = markMultiWordExpression(
                                     metrics, PatternParts(expression))
                     /\ pc' = "entry"
                     /\ lastCall' = [lastCall EXCEPT !.entry = @ + 1]
             /\ UNCHANGED passes
  /\ UNCHANGED <<expressionFrame, cache, filtered>>

\* One turn of the loop of markRegexExpression (lines 319-324): exec sets
\* lastIndex to the end of the match it returns.
ExecStep ==
  /\ pc = "exec"
  /\ lastCall.iterations < MaxIterations
  /\ LET match == exec(Expressions[lastCall.entry], metrics,
                       lastCall.lastIndex)
     IN IF match = NoMatch
        THEN /\ pc' = "entry"
             /\ lastCall' = [lastCall EXCEPT !.entry = @ + 1]
             /\ UNCHANGED metrics
        ELSE /\ pc' = "exec"
             /\ metrics' = markRangeInMetrics(metrics, match.index, match.end)
             /\ lastCall' = [lastCall EXCEPT !.lastIndex = match.end,
                                             !.iterations = @ + 1]
  /\ UNCHANGED <<expressionFrame, cache, filtered, passes>>

\* universalRuleProcessor.filterCandidates(candidates, words, locale) with
\* one candidate for each break index: isBreakViolation (lines 466-504)
\* has the one between-rule to check.
FilterExpressions ==
  /\ pc = "expressions"
  /\ filtered' =
       FilterSeq(BreakCandidates(Len(metrics)),
         [c \in 1..Len(metrics) |->
            ~(/\ ~(c - 1 <= 0 \/ c - 1 >= Len(metrics) - 1)
              /\ breakSplitsPattern(c - 1, Texts(metrics), Expressions))])
  /\ cache' = CacheAfterGet(configs, cache, locale)
  /\ lastCall' = [op |-> "filterCandidates", locale |-> locale]
  /\ UNCHANGED <<expressionFrame, pc, metrics, passes>>

\* applySegmentationRules(wordMetricsArray, ruleEngine[locale]), as
\* processTextForLineBreaking calls it (segmenter.js, line 63).
SegmentationRules ==
  /\ pc = "expressions"
  /\ lastCall' =
       [op |-> "applySegmentationRules", locale |-> locale,
        outcome |-> applySegmentationRules(
                      metrics, getLineBreakingRules(configs, locale))]
  /\ UNCHANGED <<expressionFrame, pc, metrics, filtered, cache, passes>>

ExpressionNext ==
  \/ BeginProcess
  \/ NextExpression
  \/ ExecStep
  \/ FilterExpressions
  \/ SegmentationRules

ExpressionSpec == ExpressionInit /\ [][ExpressionNext]_vars

\* The entries of a list that compile, in their order.
WithoutMalformed(entries) == SelectSeq(entries, Compiles)

\* The marks of markRegexExpression for a compiled pattern that does not
\* match the empty string: every token of every match, once.
RegexMarks(tokens, pattern) ==
  [t \in 1..Len(tokens) |->
     MarkTimes(tokens[t],
       Cardinality({s \in PatternStarts(tokens, pattern) :
                      s < t /\ t <= s + Len(PatternParts(pattern))}))]

\* The tokens after the entries from number k on have been applied.
RECURSIVE ExpressionMarks(_, _, _)
ExpressionMarks(tokens, entries, k) ==
  IF k > Len(entries) THEN tokens
  ELSE ExpressionMarks(
         IF IncludesBackslash(entries[k]) THEN RegexMarks(tokens, entries[k])
         ELSE markMultiWordExpression(tokens, PatternParts(entries[k])),
         entries, k + 1)

\* The list registered holds an entry that does not compile.
HasMalformed == \E k \in 1..Len(Expressions) : ~Compiles(Expressions[k])

\* A first processWordMetrics call has returned.
AnnotationReturned ==
  pc = "expressions" /\ lastCall.op = "processWordMetrics" /\ passes = 1

\* Annotation marks what the entries that compile make it mark.
C25_AnnotationSkips ==
  AnnotationReturned =>
    metrics = ExpressionMarks(Fresh(metrics), WithoutMalformed(Expressions), 1)

\* Break checking rejects what the entries that compile make it reject.
C25_BreakCheckSkips ==
  lastCall.op = "filterCandidates" =>
    filtered =
      FilterSeq(BreakCandidates(Len(metrics)),
        [c \in 1..Len(metrics) |->
           ~(/\ ~(c - 1 <= 0 \/ c - 1 >= Len(metrics) - 1)
             /\ breakSplitsPattern(c - 1, Texts(metrics),
                                   WithoutMalformed(Expressions)))])

\* C25: a phrase entry whose pattern does not compile is skipped:
\* annotation and break checking never raise, and every other entry of the
\* configuration is applied as if the malformed entry were absent.
C25_MalformedEntrySkipped ==
  /\ C25_AnnotationSkips
  /\ C25_BreakCheckSkips
  /\ lastCall.op = "applySegmentationRules" =>
       /\ ~lastCall.outcome.raised
       /\ lastCall.outcome =
            applySegmentationRules(metrics,
              [getLineBreakingRules(configs, locale) EXCEPT
                 !.fixedExpressions = WithoutMalformed(@)])

\* The normalization of what the registry holds now for the locale of the
\* last call: its own entry, else the entry of the fallback locale, else
\* the default configuration.
CurrentConfig ==
  normalizeConfig(ResolveConfig(configs, LocaleArg(lastCall.locale)),
                  LocaleArg(lastCall.locale))

\* C26: after any sequence of getConfig, registerLocale and clearCache
\* calls, getConfig(l) returns the normalization of the configuration
\* registered for l at the time of the call, or of the one registered for
\* the fallback locale when l has none, also when l was requested and
\* cached before the fallback locale's configuration was registered or
\* replaced.
C26_ReturnsCurrentConfig == GetConfigCalled => returned = CurrentConfig

\* The break indices (0-based) of the one-break candidates the last filter
\* call removed.
Removed ==
  {b \in 0..(Len(metrics) - 1) :
     \A c \in 1..Len(filtered) : filtered[c].breaks /= <<b>>}

\* The configuration getConfig gives for the locale of the calls.
LocaleConfig == GetConfigValue(configs, cache, LocaleArg(locale))

\* Token b (0-based) is one that processWordMetrics marks Avoid on the
\* same words under the same configuration.
AnnotatedAvoid(b) ==
  processWith(Fresh(metrics), LocaleConfig)[b + 1].lineBreaking = "avoid"

\* Token b (0-based) is one that the annotator's after-rule "hyphen" or
\* before-rule "articles" marks Avoid.
AnnotatedByHyphenOrArticle(b) ==
  /\ b + 1 < Len(metrics)
  /\ \/ applyRule("hyphen", "after", metrics[b + 1], metrics[b + 2],
                  LocaleConfig, <<>>, b)
     \/ applyRule("articles", "before", metrics[b + 1], metrics[b + 2],
                  LocaleConfig, <<>>, b)

\* C27: the candidate filters agree with the annotator on the boundary a
\* break index denotes: a candidate is removed by filterCandidates, and by
\* filterCandidatesByLocalizationRules for its hyphen and function-word
\* rules, if and only if one of its break indices b (the last token of a
\* line, b = 0 included) is a token that annotation of the same words
\* under the same configuration marks Avoid.
C27_FiltersAgreeWithAnnotator ==
  /\ lastCall.op = "filterCandidates" =>
       \A b \in 0..(Len(metrics) - 1) : b \in Removed <=> AnnotatedAvoid(b)
  /\ lastCall.op = "filterCandidatesByLocalizationRules" =>
       \A b \in 0..(Len(metrics) - 1) :
         b \in Removed <=> AnnotatedByHyphenOrArticle(b)

\* The tokens (1-based) wider than 1.5 times the target width, in a call
\* that passes the input checks.
Oversize == {t \in 1..n : 2 * wordWidths[t] > 3 * targetWidth}

\* The unperturbed pass has run.
Entered == pc /= "start" /\ ~InvalidInput

\* No position at or beyond an oversize token is reached: its penalty
\* stays Infinity and its predecessor 0.
Unreached ==
  \A t \in Oversize : \A p \in t..n :
    MainDP.penalties[p] = Infinity /\ MainDP.breaks[p] = 0

\* The candidate of the unperturbed pass is one line of all the tokens,
\* with no break and the score Infinity.
OneLineCandidate ==
  /\ BestCandidate.lines = <<words>>
  /\ BestCandidate.breaks = <<>>
  /\ BestCandidate.score = Infinity

OversizeShape ==
  (Entered /\ Oversize /= {}) =>
    /\ Unreached
    /\ OneLineCandidate
    /\ (pc = "while" /\ attemptCount = 0) => candidates = <<BestCandidate>>
    /\ pc = "done" => Len(result) >= 1

\* C28: if a single token is wider than 1.5 times targetWidth, the
\* unperturbed DP of computeBreaks reaches no position at or beyond that
\* token (penalties stay Infinity, predecessors stay 0), the candidate it
\* contributes is one line of all the tokens with empty breaks and the
\* score Infinity, and the call still returns.
C28_OversizeToken == []OversizeShape /\ <>(pc = "done")

C28_Witness ==
  /\ pc = "done"
  /\ ~InvalidInput
  /\ \E t \in Oversize : t > 1 /\ MainDP.penalties[t - 1] < Infinity
  /\ Len(result) >= 1

\* A turn of the exec loop that finds a match leaves lastIndex further on
\* in the text than it found it.
ExecAdvances ==
  (pc = "exec" /\ pc' = "exec") => lastCall'.lastIndex > lastCall.lastIndex

\* C29: processWordMetrics terminates for every token list and every
\* configuration, also when fixedExpressions has a pattern that matches
\* the empty string: every turn of the exec loop of markRegexExpression
\* advances in the text, so the loop ends.
C29_ExecLoopAdvances == [][ExecAdvances]_vars

\* ------------------------------------------- the exhaustive generator
\* generateCandidates and scoreCandidate (optimize_linebreaks.js, lines
\* 77-218) on the inputs of the state; indices are 0-based as in the code.
protectedWords ==
  {"the", "a", "an", "of", "in", "on", "with", "and", "but", "or", "for"}

\* isProtectedBreak (lines 35-40)
isProtectedBreak(index) ==
  /\ ~(index <= 0 \/ index >= Len(words))
  /\ \/ LowerCase(words[index]) \in protectedWords
     \/ LowerCase(words[index + 1]) \in protectedWords

\* calcWidth (lines 53-64) from the word at start to the word at end
calcWidth(start, end) ==
  SumSeq([k \in 1..(end - start + 1) |->
            wordWidths[start + k] + IF k > 1 THEN spaceWidth ELSE 0])

\* The modes of generateCandidates.
GeneratorModes == {"fit", "uniform"}

\* The target widths of the generator's calls.
GeneratorWidths == {10, 20}

\* scoreCandidate (lines 77-135): the score times 10 * targetWidth^2,
\* which is a whole number (fillPenalty is raggedness / targetWidth^2, the
\* weights are 3 and 0.2, or 0.5 and 4).
scoreCandidate(lines, lineWidths, breaks) ==
  LET sq(x) == x * x
      raggedness ==
        SumSeq([l \in 1..Len(lineWidths) |-> sq(targetWidth - lineWidths[l])])
      widest == CHOOSE w \in SeqToSet(lineWidths) :
                  \A v \in SeqToSet(lineWidths) : v <= w
      narrowest == CHOOSE w \in SeqToSet(lineWidths) :
                     \A v \in SeqToSet(lineWidths) : w <= v
      evenness == IF Len(lineWidths) < 2 THEN 0 ELSE sq(widest - narrowest)
      widowsOrphans == IF Len(lines[Len(lines)]) = 1 THEN 50 ELSE 0
      protectedBreaks ==
        30 * Cardinality({b \in 1..Len(breaks) : isProtectedBreak(breaks[b])})
      fixed == 10 * raggedness
                 + 10 * sq(targetWidth) * (widowsOrphans + protectedBreaks)
  IN CASE mode = "fit" ->
            30 * sq(targetWidth) * raggedness
              + 2 * sq(targetWidth) * evenness + fixed
       [] mode = "uniform" ->
            5 * sq(targetWidth) * raggedness
              + 40 * sq(targetWidth) * evenness + fixed
       [] OTHER -> 0

\* Lines 173-192: the candidate of a finished recursion.
GeneratedCandidate(currentBreaks) ==
  LET breaks == SubSeq(currentBreaks, 1, Len(currentBreaks) - 1)
      ends == Append(breaks, Len(words) - 1)
      prev(l) == IF l = 1 THEN 0 ELSE ends[l - 1] + 1
      lines == [l \in 1..Len(ends) |-> SubSeq(words, prev(l) + 1, ends[l] + 1)]
      lineWidths == [l \in 1..Len(ends) |-> calcWidth(prev(l), ends[l])]
  IN [breaks |-> breaks,
      score |-> scoreCandidate(lines, lineWidths, breaks),
      lines |-> lines,
      lineWidths |-> lineWidths]

\* width >= targetWidth * minFillRatio && width <= targetWidth * (1 +
\* balanceFactor), both factors being in tenths
ValidLineWidth(width) ==
  /\ 10 * width >= targetWidth * minFillRatio
  /\ 10 * width <= targetWidth * (10 + balanceFactor)

\* recurse (lines 172-208) and its loop over the ends of the current line
\* from end on (lines 195-207): the candidates pushed, in their order.
RECURSIVE recurse(_, _)
RECURSIVE recurseEnds(_, _, _)
recurse(start, currentBreaks) ==
  IF start >= Len(words) THEN <<GeneratedCandidate(currentBreaks)>>
  ELSE recurseEnds(start, start, currentBreaks)

recurseEnds(start, end, currentBreaks) ==
  IF end >= Len(words) THEN <<>>
  ELSE LET width == calcWidth(start, end)
       IN (IF ValidLineWidth(width)
           THEN recurse(end + 1, Append(currentBreaks, end)) ELSE <<>>)
          \o (IF 10 * width > targetWidth * (10 + balanceFactor) THEN <<>>
              ELSE recurseEnds(start, end + 1, currentBreaks))

\* generateCandidates (lines 163-218)
generateCandidates ==
  LET sorted == SortByScore(recurse(0, <<>>))
  IN SubSeq(sorted, 1, Min(candidateCount, Len(sorted)))

GeneratorInit ==
  /\ words \in ShortWords
  /\ wordWidths = Measure(words)
  /\ spaceWidth = 1
  /\ targetWidth \in GeneratorWidths
  /\ candidateCount \in 1..MaxCandidates
  /\ balanceFactor \in BalanceFactors
  /\ minFillRatio = 5
  /\ mode \in GeneratorModes
  /\ pc = "generate"
  /\ candidates = <<>>
  /\ generatedBreakPatterns = {}
  /\ minDifferenceThreshold = 0
  /\ attemptCount = 0
  /\ variant = 0
  /\ result = <<>>
  /\ OutsideComputeBreaks

\* generateCandidates(words, wordWidths, spaceWidth, targetWidth,
\* candidateCount, mode, balanceFactor, minFillRatio)
Generate ==
  /\ pc = "generate"
  /\ result' = generateCandidates
  /\ pc' = "generated"
  /\ UNCHANGED <<inputs, candidates, generatedBreakPatterns,
                 minDifferenceThreshold, attemptCount, variant>>
  /\ UNCHANGED <<pipelineVars, managerVars, annotatorVars>>

GeneratorNext == Generate

GeneratorSpec == GeneratorInit /\ [][GeneratorNext]_vars

\* A partition of the tokens into non-empty lines is the set of the
\* positions 1..n-1 it cuts at.  Every line from position from on has a
\* width within [targetWidth * minFillRatio, targetWidth * (1 +
\* balanceFactor)].
RECURSIVE LinesInRange(_, _)
LinesInRange(cuts, from) ==
  \/ from >= n
  \/ /\ ValidLineWidth(SpanWidth(from, NextCut(cuts, from)))
     /\ LinesInRange(cuts, NextCut(cuts, from))

RangePartitions ==
  IF n = 0 THEN {} ELSE {cuts \in SUBSET (1..(n - 1)) : LinesInRange(cuts, 0)}

\* The cuts of a candidate: a break index is the last token of a line.
CutsOf(candidate) == {candidate.breaks[b] + 1 : b \in 1..Len(candidate.breaks)}

\* The score the generator gives the partition with these cuts.
ScoreOfCuts(cuts) ==
  GeneratedCandidate(Increasing({c - 1 : c \in cuts} \cup {n - 1})).score

Generated == pc = "generated"

\* Every candidate returned is a partition of all the tokens into
\* non-empty lines whose cuts are its breaks.
ReturnsPartitions ==
  \A r \in 1..Len(result) :
    /\ Concat(result[r].lines) = words
    /\ \A l \in 1..Len(result[r].lines) : result[r].lines[l] /= <<>>
    /\ Len(result[r].lines) = Len(result[r].breaks) + 1
    /\ \A l \in 1..Len(result[r].breaks) :
         result[r].breaks[l] = Len(Concat(SubSeq(result[r].lines, 1, l))) - 1

\* The candidates returned are different partitions with every line in
\* the range, as many of them as asked for or as there are, in the order
\* of their scores, and none left out scores lower than one returned.
ReturnsLowestInRange ==
  /\ \A r \in 1..Len(result) : CutsOf(result[r]) \in RangePartitions
  /\ \A r, s \in 1..Len(result) : r < s =>
       /\ result[r].breaks /= result[s].breaks
       /\ result[r].score <= result[s].score
  /\ Len(result) = Min(candidateCount, Cardinality(RangePartitions))
  /\ \A cuts \in RangePartitions :
       (\A r \in 1..Len(result) : CutsOf(result[r]) /= cuts) =>
         \A r \in 1..Len(result) : result[r].score <= ScoreOfCuts(cuts)

\* C30: generateCandidates returns the candidateCount lowest-scoring
\* partitions among exactly those in which every line, the last one
\* included, has a width within [targetWidth * minFillRatio, targetWidth *
\* (1 + balanceFactor)]; every candidate returned is a partition of all the
\* tokens into non-empty lines, and nothing is returned when there is no
\* such partition.
C30_LowestScoringInRange ==
  Generated =>
    /\ ReturnsPartitions
    /\ ReturnsLowestInRange
    /\ RangePartitions = {} => result = <<>>

====
